---- MODULE Spec2Model ----
(***************************************************************************)
(* A model of ftlogic.core: the formula parser (parser.py), the symbol     *)
(* tables (signature.py, structure.py), the interpretation and evaluator   *)
(* (interpretation.py) and the knowledge base (knowledgebase.py).          *)
(*                                                                         *)
(* A Python str is a sequence of one-character strings.  A ParseTree is a  *)
(* record [value, type, children, signature]; a raised ParseError is the   *)
(* record ParseError.  A Signature object is an index into Signatures.     *)
(***************************************************************************)
EXTENDS Integers, Sequences, FiniteSets, TLC

VARIABLES
    signature,   \* the Signature the text is parsed against (index into Signatures)
    text,        \* the text handed to parse
    nops,        \* number of operands written into text
    parsed,      \* the outcome of parse(text, signature): "none", a tree or ParseError
    frames,      \* the calls of _parse in progress, the outermost first
    heap,        \* the dict objects of the evaluator's caller, by object id
    interp,      \* the caller's Interpretation object: the ids of its three tables
    call,        \* the last call made on the interpretation, with its arguments
    outcome,     \* what that call returned or raised, and the trace of the call
    rerun,       \* what a second run of the last parse and evaluate call gave
    kb,          \* the KnowledgeBase object: its signature and its parseTrees
    added,       \* the last call of KnowledgeBase.add: its argument and whether it raised
    kbCall       \* the last operation on the knowledge base, its arguments and its result

parseVars == <<signature, text, nops, parsed, frames>>
evalVars == <<heap, interp, call, outcome, rerun>>
kbVars == <<kb, added, kbCall>>
vars == <<parseVars, evalVars, kbVars>>

(***************************************************************************)
(* Bounds of the model.                                                    *)
(***************************************************************************)
MaxOperands == 2
MaxDomain == 2

(***************************************************************************)
(* Python str and list primitives.                                         *)
(***************************************************************************)
Letters == {"a", "b", "d", "f", "x", "y", "z", "A", "D", "E", "P", "R", "Z"}
Digits == {"1"}
Whitespace == {" "}

Max(a, b) == IF a >= b THEN a ELSE b

\* s[i:j] for 0 <= i and 0 <= j <= len(s)
Slice(s, i, j) == SubSeq(s, i + 1, j)

\* s[i:].startswith(key)
StartsWithAt(s, i, key) ==
    /\ i + Len(key) <= Len(s)
    /\ \A k \in 1..Len(key) : s[i + k] = key[k]

\* s.find(c) for a one-character c
Find(s, c) ==
    IF \E i \in 1..Len(s) : s[i] = c
    THEN (CHOOSE i \in 1..Len(s) : s[i] = c /\ \A j \in 1..(i - 1) : s[j] # c) - 1
    ELSE -1

\* s.strip()
Strip(s) ==
    IF \A i \in 1..Len(s) : s[i] \in Whitespace THEN <<>>
    ELSE LET lo == CHOOSE i \in 1..Len(s) :
                       s[i] \notin Whitespace /\ \A j \in 1..(i - 1) : s[j] \in Whitespace
             hi == CHOOSE i \in 1..Len(s) :
                       s[i] \notin Whitespace /\ \A j \in (i + 1)..Len(s) : s[j] \in Whitespace
         IN SubSeq(s, lo, hi)

InList(x, lst) == \E i \in 1..Len(lst) : lst[i] = x

(***************************************************************************)
(* signature.py                                                            *)
(***************************************************************************)
Signatures == <<
    [predicates |-> (<<"P">> :> 1) @@ (<<"R">> :> 2) @@ (<<"Z">> :> 0),
     functors   |-> (<<"f">> :> 1),
     constants  |-> << <<"a">>, <<"b">> >>],
    [predicates |-> (<<"P">> :> 2) @@ (<<"R">> :> 2),
     functors   |-> (<<"f">> :> 2),
     constants  |-> << <<"a">>, <<"b">>, <<"x">> >>],
    [predicates |-> (<<"P">> :> 1) @@ (<<"R">> :> 2) @@ (<<"Z">> :> 0),
     functors   |-> (<<"f">> :> 1),
     constants  |-> << <<"a">>, <<"b">> >>] >>

SigIds == 1..Len(Signatures)

\* Signature.__contains__
SignatureContains(sig, symbol) ==
    \/ symbol \in DOMAIN Signatures[sig].predicates
    \/ symbol \in DOMAIN Signatures[sig].functors
    \/ InList(symbol, Signatures[sig].constants)

\* Signature.__eq__
SignatureEq(s1, s2) ==
    /\ Signatures[s1].predicates = Signatures[s2].predicates
    /\ Signatures[s1].functors = Signatures[s2].functors
    /\ Signatures[s1].constants = Signatures[s2].constants

(***************************************************************************)
(* parser.py: ParseTree                                                    *)
(***************************************************************************)
ParseTree(value, type, children, sig) ==
    [value |-> value, type |-> type, children |-> children, signature |-> sig]

\* the outcome of a call that raised ParseError
ParseError == [value |-> <<>>, type |-> "ParseError", children |-> <<>>, signature |-> 0]

\* no ParseTree object
NotParsed == [value |-> <<>>, type |-> "none", children |-> <<>>, signature |-> 0]

IsTree(t) == t.type \notin {"none", "ParseError"}

Raised(t) == t.type = "ParseError"

isFormula(t) ==
    t.type \in {"CONJUNCTION", "DISJUNCTION", "EXISTENTIAL", "IMPLICATION",
                "UNIVERSAL", "BRACKET", "NEGATION", "PREDICATE"}

\* an isTerm that holds of atoms too
isTermOrAtom(t) == t.type \in {"CONSTANT", "VARIABLE", "FUNCTOR", "PREDICATE"}

isTerm(t) == t.type \in {"CONSTANT", "VARIABLE", "FUNCTOR"}

isAtom(t) == t.type = "PREDICATE"

RECURSIVE TreeEq(_, _), ChildrenEq(_, _, _)

\* the loop of ParseTree.__eq__ over the children
ChildrenEq(children, others, i) ==
    IF i > Len(children) THEN TRUE
    ELSE IF ~TreeEq(children[i], others[i]) THEN FALSE
    ELSE ChildrenEq(children, others, i + 1)

\* ParseTree.__eq__ for a ParseTree other; the types are compared first, the values
\* of nodes of different types being of different shapes
TreeEq(self, other) ==
    IF ~(/\ self.type = other.type
         /\ self.value = other.value
         /\ SignatureEq(self.signature, other.signature))
    THEN FALSE
    ELSE IF Len(self.children) # Len(other.children) THEN FALSE
    ELSE ChildrenEq(self.children, other.children, 1)

(***************************************************************************)
(* parser.py: the parser                                                   *)
(***************************************************************************)
\* a precedence that binds implication tighter than conjunction
_CONJUNCTION_LAST_PRECEDENCE ==
    <<"BRACKET", "VARIABLE", "CONSTANT", "FUNCTOR", "PREDICATE", "EXISTENTIAL",
      "UNIVERSAL", "NEGATION", "IMPLICATION", "DISJUNCTION", "CONJUNCTION">>

_STANDARD_PRECEDENCE ==
    <<"BRACKET", "VARIABLE", "CONSTANT", "FUNCTOR", "PREDICATE", "EXISTENTIAL",
      "UNIVERSAL", "NEGATION", "CONJUNCTION", "DISJUNCTION", "IMPLICATION">>

\* junctor symbols with an empty negation symbol
_EMPTY_NEGATION_SYMBOLS ==
    [CONJUNCTION |-> <<",">>, DISJUNCTION |-> <<";">>, NEGATION |-> <<>>,
     IMPLICATION |-> <<"-", ":">>]

_STANDARD_JUNCTOR_SYMBOLS ==
    [CONJUNCTION |-> <<",">>, DISJUNCTION |-> <<";">>,
     NEGATION |-> <<"!">>, IMPLICATION |-> <<"-", ":">>]

RECURSIVE _findTopLevelLoop(_, _, _, _)
_findTopLevelLoop(s, key, i, depth) ==
    IF i >= Len(s) THEN -1
    ELSE LET c == s[i + 1]
             d == IF c = ")" THEN Max(0, depth - 1) ELSE depth
         IN IF StartsWithAt(s, i, key) /\ d = 0 THEN i
            ELSE _findTopLevelLoop(s, key, i + 1, IF c = "(" THEN d + 1 ELSE d)

\* a _findTopLevel whose loop has no break: the position of the last occurrence
RECURSIVE _findTopLevelLastLoop(_, _, _, _, _)
_findTopLevelLastLoop(s, key, i, depth, pos) ==
    IF i >= Len(s) THEN pos
    ELSE LET c == s[i + 1]
             d == IF c = ")" THEN Max(0, depth - 1) ELSE depth
         IN _findTopLevelLastLoop(s, key, i + 1, IF c = "(" THEN d + 1 ELSE d,
                                  IF StartsWithAt(s, i, key) /\ d = 0 THEN i ELSE pos)

_findTopLevelLast(s, key) == _findTopLevelLastLoop(s, key, 0, 0, -1)

_findTopLevel(s, key) == _findTopLevelLoop(s, key, 0, 0)

RECURSIVE _splitAtLevelLoop(_, _, _, _, _, _)
_splitAtLevelLoop(str, seperator, i, depth, begin, result) ==
    IF i >= Len(str) THEN Append(result, Slice(str, begin, Len(str)))
    ELSE IF str[i + 1] = "("
         THEN _splitAtLevelLoop(str, seperator, i + 1, depth + 1, begin, result)
    ELSE IF str[i + 1] = ")"
         THEN _splitAtLevelLoop(str, seperator, i + 1, Max(0, depth - 1), begin, result)
    ELSE IF depth = 0 /\ StartsWithAt(str, i, seperator)
         THEN _splitAtLevelLoop(str, seperator, i + 1, depth, i + Len(seperator),
                               Append(result, Slice(str, begin, i)))
    ELSE _splitAtLevelLoop(str, seperator, i + 1, depth, begin, result)

_splitAtLevel(str, seperator) == _splitAtLevelLoop(str, seperator, 0, 0, 0, <<>>)

\* re.search(r"[a-zA-Z]+[a-zA-Z0-9]*", variable).span(), or <<-1, -1>> for no match
reSearchSpan(variable) ==
    IF \A i \in 1..Len(variable) : variable[i] \notin Letters THEN <<-1, -1>>
    ELSE LET start == CHOOSE i \in 1..Len(variable) :
                          variable[i] \in Letters /\ \A j \in 1..(i - 1) : variable[j] \notin Letters
             stop == CHOOSE e \in start..Len(variable) :
                          /\ \A j \in start..e : variable[j] \in Letters \cup Digits
                          /\ (e = Len(variable) \/ variable[e + 1] \notin Letters \cup Digits)
         IN <<start - 1, stop>>

\* a syntax check that does not look the name up in the signature
_varSyntaxCheckOnly(variable, sig) ==
    LET span == reSearchSpan(variable)
    IN /\ span # <<-1, -1>>
       /\ span[1] = 0
       /\ span[2] = Len(variable)

_varSyntaxCheck(variable, sig) ==
    LET span == reSearchSpan(variable)
    IN /\ span # <<-1, -1>>
       /\ span[1] = 0
       /\ span[2] = Len(variable)
       /\ ~SignatureContains(sig, variable)

\* a test that lets too few arguments pass
arityExceeded(arguments, arity) == Len(arguments) > arity

\* the test "len(arguments) != arity" of a predicate or functor application
arityMismatch(arguments, arity) == Len(arguments) # arity

RECURSIVE _parse(_, _, _, _), parseArguments(_, _, _, _, _, _, _)

\* the loop over the arguments of a predicate or functor application
parseArguments(arguments, i, children, formula, sig, precedence, junctorSymbols) ==
    IF i > Len(arguments) THEN children
    ELSE LET parsedArgument == _parse(arguments[i], sig, precedence, junctorSymbols)
         IN IF Raised(parsedArgument) THEN <<ParseError>>
            ELSE IF ~isTerm(parsedArgument) THEN <<ParseError>>
            ELSE parseArguments(arguments, i + 1, Append(children, parsedArgument),
                                formula, sig, precedence, junctorSymbols)

\* one pass of the loop "for type in reversed(precedence)": TRUE when the pass for
\* this type falls through to the next type without returning or raising
typeContinues(formula, sig, junctorSymbols, type) ==
    CASE type = "BRACKET" -> formula[1] # "("
      [] type \in {"UNIVERSAL", "EXISTENTIAL"} ->
           \/ type = "UNIVERSAL" /\ formula[1] # "A"
           \/ type = "EXISTENTIAL" /\ formula[1] # "E"
           \/ Find(formula, "~") = -1
      [] type \in {"IMPLICATION", "DISJUNCTION", "CONJUNCTION"} ->
           _findTopLevel(formula, junctorSymbols[type]) = -1
      [] type = "NEGATION" -> ~StartsWithAt(formula, 0, junctorSymbols["NEGATION"])
      [] type \in {"PREDICATE", "FUNCTOR"} ->
           LET resultIndex == Find(formula, "(")
               table == IF type = "PREDICATE" THEN Signatures[sig].predicates
                        ELSE Signatures[sig].functors
           IN \/ resultIndex = -1
              \/ Slice(formula, 0, resultIndex) \notin DOMAIN table
      [] type = "CONSTANT" -> ~InList(formula, Signatures[sig].constants)
      [] type = "VARIABLE" -> ~_varSyntaxCheck(formula, sig)
      [] OTHER -> TRUE

\* the pass of the loop for a type that does not fall through: it returns a tree or raises
parseAs(formula, sig, precedence, junctorSymbols, type) ==
    LET n == Len(formula)
    IN
    CASE type = "BRACKET" ->
           IF formula[n] # ")" THEN ParseError
           ELSE LET child == _parse(Slice(formula, 1, n - 1), sig, precedence, junctorSymbols)
                IN IF Raised(child) THEN ParseError
                   ELSE IF ~isFormula(child) THEN ParseError
                   ELSE ParseTree(<<"(", ")">>, type, <<child>>, sig)
      [] type \in {"UNIVERSAL", "EXISTENTIAL"} ->
           LET varEnd == Find(formula, "~")
               variable == Slice(formula, 1, varEnd)
               domainEnd == Find(formula, ":")
               domain == Slice(formula, varEnd + 1, domainEnd)
           IN
           IF ~_varSyntaxCheck(variable, sig) THEN ParseError
           ELSE IF domainEnd = -1 THEN ParseError
           ELSE IF ~_varSyntaxCheck(domain, sig) THEN ParseError
           ELSE LET child == _parse(Slice(formula, domainEnd + 1, n), sig, precedence, junctorSymbols)
                IN IF Raised(child) THEN ParseError
                   ELSE IF ~isFormula(child) THEN ParseError
                   ELSE ParseTree(<<variable, domain>>, type, <<child>>, sig)
      [] type \in {"IMPLICATION", "DISJUNCTION", "CONJUNCTION"} ->
           LET operatorPos == _findTopLevel(formula, junctorSymbols[type])
               left == _parse(Slice(formula, 0, operatorPos), sig, precedence, junctorSymbols)
           IN IF Raised(left) THEN ParseError
              ELSE LET right == _parse(Slice(formula, operatorPos + Len(junctorSymbols[type]), n),
                                       sig, precedence, junctorSymbols)
                   IN IF Raised(right) THEN ParseError
                      ELSE IF ~isFormula(left) THEN ParseError
                      ELSE IF ~isFormula(right) THEN ParseError
                      ELSE ParseTree(junctorSymbols[type], type, <<left, right>>, sig)
      [] type = "NEGATION" ->
           LET child == _parse(Slice(formula, Len(junctorSymbols[type]), n),
                               sig, precedence, junctorSymbols)
           IN IF Raised(child) THEN ParseError
              ELSE IF ~isFormula(child) THEN ParseError
              ELSE ParseTree(junctorSymbols[type], type, <<child>>, sig)
      [] type \in {"PREDICATE", "FUNCTOR"} ->
           LET resultIndex == Find(formula, "(")
               symbol == Slice(formula, 0, resultIndex)
               table == IF type = "PREDICATE" THEN Signatures[sig].predicates
                        ELSE Signatures[sig].functors
               arity == table[symbol]
               arguments == _splitAtLevel(Slice(formula, resultIndex + 1, n - 1), <<",">>)
           IN
           IF arityMismatch(arguments, arity) THEN ParseError
           ELSE LET children == parseArguments(arguments, 1, <<>>, formula, sig,
                                               precedence, junctorSymbols)
                IN IF children # <<>> /\ Raised(children[Len(children)]) THEN ParseError
                   ELSE ParseTree(symbol, type, children, sig)
      [] type \in {"CONSTANT", "VARIABLE"} -> ParseTree(formula, type, <<>>, sig)

\* the loop "for type in reversed(precedence)": the last type of precedence whose
\* pass does not fall through decides; "raise ParseError" when every pass falls through
parseTypes(formula, sig, precedence, junctorSymbols) ==
    LET deciding == { k \in 1..Len(precedence) :
                         ~typeContinues(formula, sig, junctorSymbols, precedence[k]) }
    IN IF deciding = {} THEN ParseError
       ELSE LET k == CHOOSE k \in deciding : \A j \in deciding : j <= k
            IN parseAs(formula, sig, precedence, junctorSymbols, precedence[k])

_parse(formula0, sig, precedence, junctorSymbols) ==
    LET formula == Strip(formula0)
    IN IF formula = <<>> THEN ParseError
       ELSE parseTypes(formula, sig, precedence, junctorSymbols)

parse(formula, sig, onlyFormulas) ==
    LET parseTree == _parse(formula, sig, _STANDARD_PRECEDENCE, _STANDARD_JUNCTOR_SYMBOLS)
    IN IF Raised(parseTree) THEN ParseError
       ELSE IF onlyFormulas /\ ~isFormula(parseTree) THEN ParseError
       ELSE parseTree

(***************************************************************************)
(* parser.py: _parse, one call at a time.  A frame is a call of _parse in  *)
(* progress: the string it was passed, the stripped formula, the type      *)
(* whose pass of the loop decides, the strings that pass hands to _parse   *)
(* in turn, the trees those calls have returned so far, and whether the    *)
(* call is about to raise ParseError.                                      *)
(***************************************************************************)
Frame(passed, formula, type, arguments, raises) ==
    [passed |-> passed, formula |-> formula, type |-> type, arguments |-> arguments,
     children |-> <<>>, raises |-> raises]

\* the "raise ParseError" statements of a pass that come before its first call of _parse
raisesBeforeCalls(formula, sig, junctorSymbols, type) ==
    CASE type = "BRACKET" -> formula[Len(formula)] # ")"
      [] type \in {"UNIVERSAL", "EXISTENTIAL"} ->
           \/ ~_varSyntaxCheck(Slice(formula, 1, Find(formula, "~")), sig)
           \/ Find(formula, ":") = -1
           \/ ~_varSyntaxCheck(Slice(formula, Find(formula, "~") + 1, Find(formula, ":")), sig)
      [] type = "PREDICATE" ->
           arityMismatch(_splitAtLevel(Slice(formula, Find(formula, "(") + 1, Len(formula) - 1),
                                       <<",">>),
                         Signatures[sig].predicates[Slice(formula, 0, Find(formula, "("))])
      [] type = "FUNCTOR" ->
           arityMismatch(_splitAtLevel(Slice(formula, Find(formula, "(") + 1, Len(formula) - 1),
                                       <<",">>),
                         Signatures[sig].functors[Slice(formula, 0, Find(formula, "("))])
      [] OTHER -> FALSE

\* the strings a pass hands to _parse, in the order of the calls
callArguments(formula, sig, junctorSymbols, type) ==
    CASE type = "BRACKET" -> << Slice(formula, 1, Len(formula) - 1) >>
      [] type \in {"UNIVERSAL", "EXISTENTIAL"} ->
           << Slice(formula, Find(formula, ":") + 1, Len(formula)) >>
      [] type \in {"IMPLICATION", "DISJUNCTION", "CONJUNCTION"} ->
           << Slice(formula, 0, _findTopLevel(formula, junctorSymbols[type])),
              Slice(formula, _findTopLevel(formula, junctorSymbols[type])
                                 + Len(junctorSymbols[type]), Len(formula)) >>
      [] type = "NEGATION" -> << Slice(formula, Len(junctorSymbols[type]), Len(formula)) >>
      [] type \in {"PREDICATE", "FUNCTOR"} ->
           _splitAtLevel(Slice(formula, Find(formula, "(") + 1, Len(formula) - 1), <<",">>)
      [] OTHER -> <<>>

\* the pass of the loop for the deciding type, up to its first call of _parse
enterAs(passed, formula, sig, junctorSymbols, type) ==
    IF raisesBeforeCalls(formula, sig, junctorSymbols, type)
    THEN Frame(passed, formula, type, <<>>, TRUE)
    ELSE Frame(passed, formula, type, callArguments(formula, sig, junctorSymbols, type), FALSE)

\* the loop "for type in reversed(precedence)" from position k of precedence down;
\* "raise ParseError" when every pass falls through
RECURSIVE enterTypes(_, _, _, _, _, _)
enterTypes(passed, formula, sig, precedence, junctorSymbols, k) ==
    IF k = 0 THEN Frame(passed, formula, "none", <<>>, TRUE)
    ELSE IF typeContinues(formula, sig, junctorSymbols, precedence[k])
    THEN enterTypes(passed, formula, sig, precedence, junctorSymbols, k - 1)
    ELSE enterAs(passed, formula, sig, junctorSymbols, precedence[k])

\* the call _parse(passed, ...) after "formula = formula.strip()", up to its first
\* call of _parse
enter(passed, formula, sig, precedence, junctorSymbols) ==
    IF formula = <<>> THEN Frame(passed, <<>>, "none", <<>>, TRUE)
    ELSE enterTypes(passed, formula, sig, precedence, junctorSymbols, Len(precedence))

\* the tests a pass makes on what its calls of _parse returned: an argument of a
\* predicate or functor as it is returned, the children of the other nodes once
\* all of them are
childRefused(frame, children) ==
    IF frame.type \in {"PREDICATE", "FUNCTOR"} THEN ~isTerm(children[Len(children)])
    ELSE /\ Len(children) = Len(frame.arguments)
         /\ \E i \in DOMAIN children : ~isFormula(children[i])

\* the frame once one more of its calls of _parse has returned child
resume(frame, children) ==
    [frame EXCEPT !.children = children, !.raises = childRefused(frame, children)]

\* the "return ParseTree(...)" statement of the pass
returnTree(frame, sig, junctorSymbols) ==
    CASE frame.type = "BRACKET" -> ParseTree(<<"(", ")">>, frame.type, frame.children, sig)
      [] frame.type \in {"UNIVERSAL", "EXISTENTIAL"} ->
           ParseTree(<< Slice(frame.formula, 1, Find(frame.formula, "~")),
                        Slice(frame.formula, Find(frame.formula, "~") + 1,
                              Find(frame.formula, ":")) >>,
                     frame.type, frame.children, sig)
      [] frame.type \in {"IMPLICATION", "DISJUNCTION", "CONJUNCTION", "NEGATION"} ->
           ParseTree(junctorSymbols[frame.type], frame.type, frame.children, sig)
      [] frame.type \in {"PREDICATE", "FUNCTOR"} ->
           ParseTree(Slice(frame.formula, 0, Find(frame.formula, "(")), frame.type,
                     frame.children, sig)
      [] OTHER -> ParseTree(frame.formula, frame.type, <<>>, sig)

(***************************************************************************)
(* parser.py: ParseTree queries                                            *)
(***************************************************************************)
Quantifiers == {"UNIVERSAL", "EXISTENTIAL"}

\* list.extend(str): one element per character of the string
Chars(s) == [i \in 1..Len(s) |-> <<s[i]>>]

\* "for v in childVars: if not v in vars: vars.append(v)"
RECURSIVE appendNew(_, _, _)
appendNew(lst, items, i) ==
    IF i > Len(items) THEN lst
    ELSE appendNew(IF InList(items[i], lst) THEN lst ELSE Append(lst, items[i]), items, i + 1)

RECURSIVE getVariables(_), getVariablesOfChildren(_, _, _)
getVariablesOfChildren(children, i, lst) ==
    IF i > Len(children) THEN lst
    ELSE getVariablesOfChildren(children, i + 1, appendNew(lst, getVariables(children[i]), 1))

getVariables(t) ==
    IF t.type = "VARIABLE" THEN <<t.value>>
    ELSE IF t.type = "CONSTANT" THEN <<>>
    ELSE LET lst == getVariablesOfChildren(t.children, 1, <<>>)
         IN IF t.type \in Quantifiers /\ ~InList(t.value[1], lst)
            THEN Append(lst, t.value[1])
            ELSE lst

RECURSIVE getBound(_), getBoundOfChildren(_, _)
getBoundOfChildren(children, i) ==
    IF i > Len(children) THEN <<>>
    ELSE getBound(children[i]) \o getBoundOfChildren(children, i + 1)

\* a getBound that puts the variable of a quantifier before those of its body
getBoundOuterFirst(t) ==
    IF isTerm(t) THEN <<>>
    ELSE IF t.type \in Quantifiers
         THEN Chars(t.value[1]) \o getBound(t.children[1])
    ELSE getBoundOfChildren(t.children, 1)

getBound(t) ==
    IF isTerm(t) THEN <<>>
    ELSE IF t.type \in Quantifiers
         THEN getBound(t.children[1]) \o Chars(t.value[1])
    ELSE getBoundOfChildren(t.children, 1)

getFree(t) ==
    LET bound == getBound(t)
    IN SelectSeq(getVariables(t), LAMBDA x : ~InList(x, bound))

RECURSIVE getDomains(_), getDomainsOfChildren(_, _)
getDomainsOfChildren(children, i) ==
    IF i > Len(children) THEN <<>>
    ELSE getDomains(children[i]) \o getDomainsOfChildren(children, i + 1)

getDomains(t) ==
    IF isTerm(t) THEN <<>>
    ELSE IF t.type \in Quantifiers
         THEN LET doms == getDomains(t.children[1])
              IN IF ~InList(t.value[2], doms) THEN doms \o Chars(t.value[2]) ELSE doms
    ELSE getDomainsOfChildren(t.children, 1)

(***************************************************************************)
(* interpretation.py: values.  A tensor is a batch: a sequence of elements, *)
(* each an uninterpreted term [op, args] with args a sequence of batches.  *)
(* A callable mapped by a Structure is a one-element batch naming it; its  *)
(* application, and the operators of an OperatorSet, build terms.          *)
(***************************************************************************)
Tensor(name) == << [op |-> name, args |-> <<>>] >>

\* a call that passes the arguments in reverse order
ApplyReversed(f, args) ==
    << [op |-> f[1].op, args |-> [i \in 1..Len(args) |-> args[Len(args) + 1 - i]]] >>

\* f(*args) for a callable f
Apply(f, args) == << [op |-> f[1].op, args |-> args] >>

\* tf.concat(results, 0)
RECURSIVE Concat(_, _)
Concat(results, i) ==
    IF i > Len(results) THEN <<>> ELSE results[i] \o Concat(results, i + 1)

\* an OperatorSet: the names of its six operators
OperatorSet ==
    [negation |-> Tensor("negation"), tnorm |-> Tensor("tnorm"),
     tconorm |-> Tensor("tconorm"), implication |-> Tensor("implication"),
     universal |-> Tensor("universal"), existential |-> Tensor("existential")]

(***************************************************************************)
(* Python dict objects live in a heap (a sequence, the id is the index);   *)
(* a dict is a function from keys to values.                               *)
(***************************************************************************)
EmptyDict == [k \in {} |-> <<>>]

\* d.update(other)
DictUpdate(d, other) ==
    [k \in (DOMAIN d) \cup (DOMAIN other) |-> IF k \in DOMAIN other THEN other[k] ELSE d[k]]

(***************************************************************************)
(* interpretation.py: Interpretation                                       *)
(***************************************************************************)
\* Interpretation.__init__: an empty (falsy) table argument is replaced by a new dict
NewInterpretation(structure, variableAssignment, domainAssignment, h) ==
    LET h1 == IF DOMAIN h[variableAssignment] # {} THEN h ELSE Append(h, EmptyDict)
        va == IF DOMAIN h[variableAssignment] # {} THEN variableAssignment ELSE Len(h1)
        h2 == IF DOMAIN h[domainAssignment] # {} THEN h1 ELSE Append(h1, EmptyDict)
        da == IF DOMAIN h[domainAssignment] # {} THEN domainAssignment ELSE Len(h2)
    IN [self |-> [structure |-> structure, variableAssignment |-> va, domainAssignment |-> da],
        heap |-> h2]

\* a lookup that consults the variable assignment before the Structure
interpretVariableFirst(self, symbol, h) ==
    IF symbol \in DOMAIN h[self.variableAssignment]
    THEN [val |-> h[self.variableAssignment][symbol], err |-> FALSE]
    ELSE IF symbol \in DOMAIN h[self.structure]
    THEN [val |-> h[self.structure][symbol], err |-> FALSE]
    ELSE IF symbol \in DOMAIN h[self.domainAssignment]
    THEN [val |-> h[self.domainAssignment][symbol], err |-> FALSE]
    ELSE [val |-> <<>>, err |-> TRUE]

\* Interpretation.interpret / __call__ (Structure.__contains__, Structure.__call__)
interpret(self, symbol, h) ==
    IF symbol \in DOMAIN h[self.structure]
    THEN [val |-> h[self.structure][symbol], err |-> FALSE]
    ELSE IF symbol \in DOMAIN h[self.variableAssignment]
    THEN [val |-> h[self.variableAssignment][symbol], err |-> FALSE]
    ELSE IF symbol \in DOMAIN h[self.domainAssignment]
    THEN [val |-> h[self.domainAssignment][symbol], err |-> FALSE]
    ELSE [val |-> <<>>, err |-> TRUE]

\* an extend that updates the receiver's own dict instead of a copy of it
extendInPlace(self, substitution, h) ==
    LET h2 == [h EXCEPT ![self.variableAssignment] = DictUpdate(@, substitution)]
    IN NewInterpretation(self.structure, self.variableAssignment, self.domainAssignment, h2)

\* an extend that lets a binding the receiver already holds win over the substitution
extendOuterWins(self, substitution, h) ==
    LET h1 == Append(h, h[self.variableAssignment])
        variableAssignment == Len(h1)
        h2 == [h1 EXCEPT ![variableAssignment] = DictUpdate(substitution, @)]
    IN NewInterpretation(self.structure, variableAssignment, self.domainAssignment, h2)

\* Interpretation.extend
extend(self, substitution, h) ==
    LET h1 == Append(h, h[self.variableAssignment])
        variableAssignment == Len(h1)
        h2 == [h1 EXCEPT ![variableAssignment] = DictUpdate(@, substitution)]
    IN NewInterpretation(self.structure, variableAssignment, self.domainAssignment, h2)

(***************************************************************************)
(* interpretation.py: evaluate.  It returns [val, err, heap, log]: the     *)
(* value or the raised error, the heap it leaves, and the trace of the     *)
(* call: an "evaluate" event on entry to each (recursive) call with the    *)
(* variable assignment then in force, an "operator" event for each call of *)
(* an operator of the OperatorSet, a "return" event with the value.        *)
(***************************************************************************)
Event(kind, depth, tree, bindings, op, args) ==
    [kind |-> kind, depth |-> depth, tree |-> tree, bindings |-> bindings,
     op |-> op, args |-> args]

Returned(val, h, log, depth, tree) ==
    [val |-> val, err |-> FALSE, heap |-> h,
     log |-> Append(log, Event("return", depth, tree, EmptyDict, "", <<val>>))]

EvalRaised(h, log) == [val |-> <<>>, err |-> TRUE, heap |-> h, log |-> log]

RECURSIVE evaluate(_, _, _, _, _), evaluateChildren(_, _, _, _, _, _, _, _),
          evaluateDomain(_, _, _, _, _, _, _, _, _)

\* "for child in parseTree.children: childValues.append(evaluate(child, ...))"
evaluateChildren(children, i, interpretation, junctors, h, depth, childValues, log) ==
    IF i > Len(children)
    THEN [vals |-> childValues, err |-> FALSE, heap |-> h, log |-> log]
    ELSE LET r == evaluate(children[i], interpretation, junctors, h, depth)
         IN IF r.err THEN [vals |-> <<>>, err |-> TRUE, heap |-> r.heap, log |-> log \o r.log]
            ELSE evaluateChildren(children, i + 1, interpretation, junctors, r.heap, depth,
                                  Append(childValues, r.val), log \o r.log)

\* a slice that takes the first element whatever the index
domainSliceFirst(domain, i) == SubSeq(domain, 1, 1)

\* "variableValue = domain[i:i+1]"
domainSlice(domain, i) == SubSeq(domain, i + 1, i + 1)

\* "for i in range(0, domain.shape[0])" of a quantifier
evaluateDomain(parseTree, interpretation, junctors, domain, i, results, h, depth, log) ==
    IF i >= Len(domain)
    THEN [vals |-> results, err |-> FALSE, heap |-> h, log |-> log]
    ELSE LET variableValue == domainSlice(domain, i)
             substitution == (parseTree.value[1] :> variableValue)
             ext == extend(interpretation, substitution, h)
             r == evaluate(parseTree.children[1], ext.self, junctors, ext.heap, depth)
         IN IF r.err THEN [vals |-> <<>>, err |-> TRUE, heap |-> r.heap, log |-> log \o r.log]
            ELSE evaluateDomain(parseTree, interpretation, junctors, domain, i + 1,
                                Append(results, r.val), r.heap, depth, log \o r.log)

evaluate(parseTree, interpretation, junctors, h, depth) ==
    LET entry == << Event("evaluate", depth, parseTree,
                          h[interpretation.variableAssignment], "", <<>>) >>
        type == parseTree.type
    IN
    IF type \in {"CONSTANT", "VARIABLE"} THEN
        LET v == interpret(interpretation, parseTree.value, h)
        IN IF v.err THEN EvalRaised(h, entry)
           ELSE Returned(v.val, h, entry, depth, parseTree)
    ELSE IF type \in {"FUNCTOR", "PREDICATE"} THEN
        LET cs == evaluateChildren(parseTree.children, 1, interpretation, junctors, h,
                                   depth + 1, <<>>, entry)
        IN IF cs.err THEN EvalRaised(cs.heap, cs.log)
           ELSE LET f == interpret(interpretation, parseTree.value, cs.heap)
                IN IF f.err THEN EvalRaised(cs.heap, cs.log)
                   ELSE Returned(Apply(f.val, cs.vals), cs.heap, cs.log, depth, parseTree)
    ELSE IF type = "BRACKET" THEN
        LET r == evaluate(parseTree.children[1], interpretation, junctors, h, depth + 1)
        IN IF r.err THEN EvalRaised(r.heap, entry \o r.log)
           ELSE Returned(r.val, r.heap, entry \o r.log, depth, parseTree)
    ELSE IF type = "NEGATION" THEN
        LET operator == junctors.negation
            r == evaluate(parseTree.children[1], interpretation, junctors, h, depth + 1)
        IN IF r.err THEN EvalRaised(r.heap, entry \o r.log)
           ELSE Returned(Apply(operator, <<r.val>>), r.heap,
                         Append(entry \o r.log,
                                Event("operator", depth, parseTree, EmptyDict,
                                      operator[1].op, <<r.val>>)),
                         depth, parseTree)
    ELSE IF type \in {"CONJUNCTION", "DISJUNCTION", "IMPLICATION"} THEN
        LET operator == IF type = "CONJUNCTION" THEN junctors.tnorm
                        ELSE IF type = "DISJUNCTION" THEN junctors.tconorm
                        ELSE junctors.implication
            cs == evaluateChildren(parseTree.children, 1, interpretation, junctors, h,
                                   depth + 1, <<>>, entry)
        IN IF cs.err THEN EvalRaised(cs.heap, cs.log)
           ELSE Returned(Apply(operator, cs.vals), cs.heap,
                         Append(cs.log, Event("operator", depth, parseTree, EmptyDict,
                                              operator[1].op, cs.vals)),
                         depth, parseTree)
    ELSE IF type \in {"EXISTENTIAL", "UNIVERSAL"} THEN
        LET domainSymbol == parseTree.value[2]
            domain == interpret(interpretation, domainSymbol, h)
        IN IF domain.err THEN EvalRaised(h, entry)
           ELSE LET rs == evaluateDomain(parseTree, interpretation, junctors, domain.val,
                                         0, <<>>, h, depth + 1, entry)
                    aggregator == IF type = "EXISTENTIAL" THEN junctors.existential
                                  ELSE junctors.universal
                IN IF rs.err THEN EvalRaised(rs.heap, rs.log)
                   ELSE LET batch == Concat(rs.vals, 1)
                        IN Returned(Apply(aggregator, <<batch>>), rs.heap,
                                    Append(rs.log,
                                           Event("operator", depth, parseTree, EmptyDict,
                                                 aggregator[1].op, <<batch>>)),
                                    depth, parseTree)
    ELSE EvalRaised(h, entry)

(***************************************************************************)
(* knowledgebase.py: KnowledgeBase.  The argument of add is a ParseTree or *)
(* a str: [kind, value] with kind the class of the argument.               *)
(***************************************************************************)
\* KnowledgeBase.__len__
len(self) == Len(self.parseTrees)

\* an add that appends a ParseTree whatever its signature
addUnguarded(self, formula) ==
    IF formula.kind = "ParseTree"
    THEN [self |-> [self EXCEPT !.parseTrees = Append(@, formula.value)], raised |-> FALSE]
    ELSE LET pt == parse(formula.value, self.signature, TRUE)
         IN IF Raised(pt) THEN [self |-> self, raised |-> TRUE]
            ELSE [self |-> [self EXCEPT !.parseTrees = Append(@, pt)], raised |-> FALSE]

\* an add that parses its text without onlyFormulas
addAnyExpression(self, formula) ==
    IF formula.kind = "ParseTree"
    THEN IF ~SignatureEq(formula.value.signature, self.signature)
         THEN [self |-> self, raised |-> TRUE]
         ELSE [self |-> [self EXCEPT !.parseTrees = Append(@, formula.value)],
               raised |-> FALSE]
    ELSE LET pt == parse(formula.value, self.signature, FALSE)
         IN IF Raised(pt) THEN [self |-> self, raised |-> TRUE]
            ELSE [self |-> [self EXCEPT !.parseTrees = Append(@, pt)], raised |-> FALSE]

\* KnowledgeBase.add: the knowledge base it leaves and whether it raised
\* add with the tree put in front of the stored ones
addFront(self, formula) ==
    IF formula.kind = "ParseTree"
    THEN IF ~SignatureEq(formula.value.signature, self.signature)
         THEN [self |-> self, raised |-> TRUE]
         ELSE [self |-> [self EXCEPT !.parseTrees = <<formula.value>> \o @], raised |-> FALSE]
    ELSE LET pt == parse(formula.value, self.signature, TRUE)
         IN IF Raised(pt) THEN [self |-> self, raised |-> TRUE]
            ELSE [self |-> [self EXCEPT !.parseTrees = <<pt>> \o @], raised |-> FALSE]

add(self, formula) ==
    IF formula.kind = "ParseTree"
    THEN IF ~SignatureEq(formula.value.signature, self.signature)
         THEN [self |-> self, raised |-> TRUE]
         ELSE [self |-> [self EXCEPT !.parseTrees = Append(@, formula.value)],
               raised |-> FALSE]
    ELSE LET pt == parse(formula.value, self.signature, TRUE)
         IN IF Raised(pt) THEN [self |-> self, raised |-> TRUE]
            ELSE [self |-> [self EXCEPT !.parseTrees = Append(@, pt)], raised |-> FALSE]

\* no KnowledgeBase object
NoKB == [signature |-> 0, parseTrees |-> <<>>]

\* the loop "for f in formulas: self.add(f)" of the constructor
RECURSIVE addAll(_, _, _)

\* the rest of the loop after the call of add that returned r
addRest(r, formulas, i) ==
    IF r.raised THEN [self |-> NoKB, raised |-> TRUE]
    ELSE addAll(r.self, formulas, i + 1)

addAll(self, formulas, i) ==
    IF i > Len(formulas) THEN [self |-> self, raised |-> FALSE]
    ELSE addRest(add(self, formulas[i]), formulas, i)

\* KnowledgeBase.__init__; formulas is [given, list], given FALSE for the default
\* None, which "for f in formulas" cannot iterate (TypeError)
KnowledgeBase(sig, formulas) ==
    LET self == [signature |-> sig, parseTrees |-> <<>>]
    IN IF ~formulas.given THEN [self |-> NoKB, raised |-> TRUE]
       ELSE addAll(self, formulas.list, 1)

\* KnowledgeBase.__iter__: the trees the iterator yields, in order
iter(self) == self.parseTrees

\* "formula in self.parseTrees"
RECURSIVE inList(_, _, _)
inList(formula, parseTrees, i) ==
    IF i > Len(parseTrees) THEN FALSE
    ELSE IF TreeEq(parseTrees[i], formula) THEN TRUE
    ELSE inList(formula, parseTrees, i + 1)

\* the except clause of KnowledgeBase.__contains__ and its return statement, pt
\* the result of the call of parse
containsParsed(self, pt) ==
    IF Raised(pt) THEN FALSE
    ELSE inList(pt, self.parseTrees, 1)

\* KnowledgeBase.__contains__
contains(self, formula) ==
    IF formula.kind = "ParseTree" THEN inList(formula.value, self.parseTrees, 1)
    ELSE containsParsed(self, parse(formula.value, self.signature, TRUE))

(***************************************************************************)
(* interpretation.py: evaluateKB.  The first argument is [kind, value],    *)
(* kind the class of the argument.  The trace holds the trace of each      *)
(* evaluate call and an "aggregator" event for the call of the aggregator. *)
(***************************************************************************)
RECURSIVE evaluateTrees(_, _, _, _, _, _, _)

\* appendResult with the value put in front of the results
prependResult(r, parseTrees, i, interpretation, junctors, results, log) ==
    IF r.err THEN [vals |-> <<>>, err |-> TRUE, heap |-> r.heap, log |-> log \o r.log]
    ELSE evaluateTrees(parseTrees, i + 1, interpretation, junctors, r.heap,
                       <<r.val>> \o results, log \o r.log)

\* "results.append(evaluate(pt, interpretation, junctors))" for the result r of the
\* call of evaluate, and the rest of the loop
appendResult(r, parseTrees, i, interpretation, junctors, results, log) ==
    IF r.err THEN [vals |-> <<>>, err |-> TRUE, heap |-> r.heap, log |-> log \o r.log]
    ELSE evaluateTrees(parseTrees, i + 1, interpretation, junctors, r.heap,
                       Append(results, r.val), log \o r.log)

\* "for pt in knowledgeBase.parseTrees: results.append(evaluate(pt, ...))"
evaluateTrees(parseTrees, i, interpretation, junctors, h, results, log) ==
    IF i > Len(parseTrees)
    THEN [vals |-> results, err |-> FALSE, heap |-> h, log |-> log]
    ELSE appendResult(evaluate(parseTrees[i], interpretation, junctors, h, 0),
                      parseTrees, i, interpretation, junctors, results, log)

\* "return aggregator(tf.concat(results, 0))" for the outcome rs of the loop
aggregate(rs, aggregator, batch) ==
    IF rs.err THEN EvalRaised(rs.heap, rs.log)
    ELSE [val |-> Apply(aggregator, <<batch>>), err |-> FALSE, heap |-> rs.heap,
          log |-> Append(rs.log, Event("aggregator", 0, NotParsed, EmptyDict,
                                       aggregator[1].op, <<batch>>))]

aggregateResults(rs, aggregator) == aggregate(rs, aggregator, Concat(rs.vals, 1))

evaluateKB(knowledgeBase, interpretation, junctors, aggregator, h) ==
    IF knowledgeBase.kind # "KnowledgeBase" THEN EvalRaised(h, <<>>)
    ELSE aggregateResults(evaluateTrees(knowledgeBase.value.parseTrees, 1, interpretation,
                                        junctors, h, <<>>, <<>>),
                          aggregator)

(***************************************************************************)
(* The caller of parse: a text is written operand by operand, the operands *)
(* joined by binary junctor symbols, and handed to parse.                  *)
(***************************************************************************)
Operands ==
    { <<"a">>,
      <<"P", "(", "a", ")">>,
      <<"R", "(", "a", ",", "b", ")">>,
      <<"!", "P", "(", "f", "(", "a", ")", ")">>,
      <<"Z", "(", ")">>,
      <<"P", "(", "a", "x">>,
      <<"A", "x", "~", "D", ":", "P", "(", "x", ")">>,
      <<"E", "y", "z", "~", "D", "d", ":", "P", "(", "x", ")">>,
      <<"A", "x", "~", "D", ":", "E", "y", "~", "D", ":", "R", "(", "x", ",", "y", ")">>,
      <<"(", " ", "P", "(", "a", ")", ",", "P", "(", "x", ")", " ", ")">>,
      <<"P", "(", "a", ")", "-", ":", "P", "(", "x", ")">>,
      <<"!", "a">>,
      <<"(", "a", ")">>,
      <<"P", "(", "P", "(", "a", ")", ")">> }

BinaryJunctors ==
    { _STANDARD_JUNCTOR_SYMBOLS[t] : t \in {"IMPLICATION", "DISJUNCTION", "CONJUNCTION"} }

ParseSigIds == {1, 2}

ParseIdle ==
    /\ signature = 1
    /\ text = <<>>
    /\ nops = 0
    /\ parsed = NotParsed
    /\ frames = <<>>

NoCall ==
    [op |-> "none", text |-> <<>>, tree |-> NotParsed, symbol |-> <<>>,
     substitution |-> EmptyDict]

NoInterpretation == [structure |-> 0, variableAssignment |-> 0, domainAssignment |-> 0]

NoOutcome == [val |-> <<>>, err |-> FALSE, log |-> <<>>, self |-> NoInterpretation]

NoRerun == [done |-> FALSE, tree |-> NotParsed, val |-> <<>>, err |-> FALSE]

EvalIdle ==
    /\ heap = <<EmptyDict, EmptyDict, EmptyDict>>
    /\ interp = [structure |-> 1, variableAssignment |-> 2, domainAssignment |-> 3]
    /\ call = NoCall
    /\ outcome = NoOutcome
    /\ rerun = NoRerun

NoFormula == [kind |-> "none", value |-> <<>>]

NotAdded == [formula |-> NoFormula, raised |-> FALSE]

NoKBCall ==
    [op |-> "none", formulas |-> [given |-> TRUE, list |-> <<>>], formula |-> NoFormula,
     kind |-> "none", raised |-> FALSE, returned |-> <<>>, log |-> <<>>]

KBIdle ==
    /\ kb = [signature |-> 1, parseTrees |-> <<>>]
    /\ added = NotAdded
    /\ kbCall = NoKBCall

InitParse ==
    /\ signature \in ParseSigIds
    /\ text = <<>>
    /\ nops = 0
    /\ parsed = NotParsed
    /\ frames = <<>>
    /\ EvalIdle
    /\ KBIdle

Begin(operand) ==
    /\ nops = 0
    /\ text' = operand
    /\ nops' = 1
    /\ parsed' = NotParsed
    /\ UNCHANGED <<signature, frames, evalVars, kbVars>>

Join(junctor, operand) ==
    /\ nops >= 1
    /\ nops < MaxOperands
    /\ text' = text \o junctor \o operand
    /\ nops' = nops + 1
    /\ parsed' = NotParsed
    /\ UNCHANGED <<signature, frames, evalVars, kbVars>>

Parse ==
    /\ nops >= 1
    /\ parsed.type = "none"
    /\ parsed' = parse(text, signature, FALSE)
    /\ UNCHANGED <<signature, text, nops, frames, evalVars, kbVars>>

NextParse ==
    \/ \E operand \in Operands : Begin(operand)
    \/ \E junctor \in BinaryJunctors, operand \in Operands : Join(junctor, operand)
    \/ Parse

SpecParse == InitParse /\ [][NextParse]_vars

(***************************************************************************)
(* The run of one call of parse, a call of _parse at a time: the caller    *)
(* writes a text, any of up to MaxLen characters of TextAlphabet or one of *)
(* the longer ones of DeepTexts, and hands it to parse; _parse calls       *)
(* itself, returns to its caller, or raises, and a ParseError passes       *)
(* through every call in progress (no call of _parse catches it).          *)
(***************************************************************************)
MaxLen == 4

TextAlphabet == {"(", ")", "!", ",", "P", "a"}

DeepTexts ==
    Operands \cup
    { <<"!", "(", "P", "(", "a", ")", ",", "A", "x", "~", "D", ":", "R", "(", "x", ",",
        "f", "(", "b", ")", ")", ")", "-", ":", "P", "(", "a", ")">>,
      <<" ", "(", " ", "(", " ", "!", " ", "P", "(", " ", "a", " ", ")", " ", ")", " ", ")", " ">>,
      <<"P", "(", "a", ")", ";", "P", "(", "b", ")", ";", "!", "!", "P", "(", "f", "(",
        "f", "(", "a", ")", ")", ")">>,
      <<"R", "(", "a", ",", "P", "(", "a", ")", ")">>,
      <<"P", "(", "a", ")", ",", "(", "P", "(", "b", ")", ";", "a", ")">>,
      <<"A", "x", "~", "D", ":", "E", "y", "~", ":", "P", "(", "x", ")">>,
      <<"f", "(", "a", ")">>,
      <<"f", "(", "f", "(", "x", ")", ")">>,
      <<"R", "(", "f", "(", "a", ")", ",", "b", ")">> }

\* parse has not been called
NotStarted == parsed.type = "none" /\ frames = <<>>

\* the caller writes one more character
Write(c) ==
    /\ NotStarted
    /\ nops = 0
    /\ Len(text) < MaxLen
    /\ text' = Append(text, c)
    /\ UNCHANGED <<signature, nops, parsed, frames, evalVars, kbVars>>

\* the caller takes one of the longer texts
Take(formula) ==
    /\ NotStarted
    /\ nops = 0
    /\ text = <<>>
    /\ text' = formula
    /\ nops' = 1
    /\ UNCHANGED <<signature, parsed, frames, evalVars, kbVars>>

InitRecursion ==
    /\ signature \in ParseSigIds
    /\ text = <<>>
    /\ nops = 0
    /\ parsed = NotParsed
    /\ frames = <<>>
    /\ EvalIdle
    /\ KBIdle

\* _parse(passed, signature, precedence, junctorSymbols) is called where the calls in
\* progress are those of below
Enters(below, passed) ==
    \E formula \in {Strip(passed)} :
        frames' = Append(below, enter(passed, formula, signature, _STANDARD_PRECEDENCE,
                                      _STANDARD_JUNCTOR_SYMBOLS))

\* parse(text, signature): the first call of _parse
Start ==
    /\ NotStarted
    /\ Enters(<<>>, text)
    /\ UNCHANGED <<signature, text, nops, parsed, evalVars, kbVars>>

\* the call in progress calls _parse on the next of its strings
Call ==
    /\ frames # <<>>
    /\ ~frames[Len(frames)].raises
    /\ Len(frames[Len(frames)].children) < Len(frames[Len(frames)].arguments)
    /\ Enters(frames, frames[Len(frames)].arguments[Len(frames[Len(frames)].children) + 1])
    /\ UNCHANGED <<signature, text, nops, parsed, evalVars, kbVars>>

\* the call in progress returns tree: to parse, which returns it, or to the call
\* of _parse that made it
Returns(tree) ==
    IF Len(frames) = 1
    THEN /\ frames' = <<>>
         /\ parsed' = tree
    ELSE /\ frames' = Append(SubSeq(frames, 1, Len(frames) - 2),
                             resume(frames[Len(frames) - 1],
                                    Append(frames[Len(frames) - 1].children, tree)))
         /\ UNCHANGED parsed

Return ==
    /\ frames # <<>>
    /\ ~frames[Len(frames)].raises
    /\ Len(frames[Len(frames)].children) = Len(frames[Len(frames)].arguments)
    /\ Returns(returnTree(frames[Len(frames)], signature, _STANDARD_JUNCTOR_SYMBOLS))
    /\ UNCHANGED <<signature, text, nops, evalVars, kbVars>>

\* the call in progress raises ParseError, and so does parse
Raise ==
    /\ frames # <<>>
    /\ frames[Len(frames)].raises
    /\ frames' = <<>>
    /\ parsed' = ParseError
    /\ UNCHANGED <<signature, text, nops, evalVars, kbVars>>

NextRecursion ==
    \/ \E c \in TextAlphabet : Write(c)
    \/ \E formula \in DeepTexts : Take(formula)
    \/ Start
    \/ Call
    \/ Return
    \/ Raise

\* the interpreter runs a call that was made until it has returned or raised
SpecRecursion ==
    InitRecursion /\ [][NextRecursion]_vars /\ WF_vars(Call \/ Return \/ Raise)

(***************************************************************************)
(* The caller of the evaluator: it builds a Structure, a variable and a    *)
(* domain assignment, wraps them in an Interpretation, and calls           *)
(* interpret, extend and evaluate on it.                                   *)
(***************************************************************************)
Restrict(f, keys) == [k \in (DOMAIN f) \cap keys |-> f[k]]

StructureMappings ==
    (<<"a">> :> Tensor("a0")) @@ (<<"b">> :> Tensor("b0")) @@ (<<"P">> :> Tensor("P"))
    @@ (<<"R">> :> Tensor("R")) @@ (<<"f">> :> Tensor("f")) @@ (<<"x">> :> Tensor("x0"))

\* the mappings of the structures the caller may build
Structures ==
    { Restrict(StructureMappings, (DOMAIN StructureMappings) \ {<<"x">>}),
      StructureMappings }

VariableValues ==
    (<<"x">> :> Tensor("vx")) @@ (<<"a">> :> Tensor("va")) @@ (<<"D">> :> Tensor("vD"))

VariableAssignments == { Restrict(VariableValues, keys) : keys \in SUBSET DOMAIN VariableValues }

DomainElements == <<"d1", "d2", "d3", "d4">>

Batch(n) == [i \in 1..n |-> [op |-> DomainElements[i], args |-> <<>>]]

DomainAssignments ==
    { d \cup x : d \in {{}} \cup { {<<<<"D">>, Batch(n)>>} : n \in 1..MaxDomain },
                 x \in { {}, {<<<<"x">>, Batch(1)>>} } }

DictOf(pairs) == [k \in { pr[1] : pr \in pairs } |-> (CHOOSE pr \in pairs : pr[1] = k)[2]]

\* the formulas the caller evaluates, and their parse trees under signature 1
EvalTexts ==
    << <<"P", "(", "a", ")">>,
       <<"!", "P", "(", "x", ")">>,
       <<"A", "x", "~", "D", ":", "P", "(", "x", ")">>,
       <<"E", "x", "~", "D", ":", "R", "(", "x", ",", "a", ")">>,
       <<"(", "E", "x", "~", "D", ":", "P", "(", "x", ")", ")", ",", "P", "(", "x", ")">>,
       <<"A", "x", "~", "D", ":", "E", "x", "~", "D", ":", "P", "(", "x", ")">>,
       <<"A", "x", "~", "D", ":", "E", "y", "~", "D", ":", "R", "(", "x", ",", "y", ")">>,
       <<"(", "P", "(", "f", "(", "a", ")", ")", ";", "P", "(", "x", ")", ")", "-", ":",
         "P", "(", "a", ")">>,
       <<"A", "x", "~", "D", ":", "(", "(", "E", "x", "~", "D", ":", "P", "(", "x", ")", ")",
         ",", "P", "(", "x", ")", ")">>,
       <<"R", "(", "a", ",", "b", ")">>,
       <<"!", "R", "(", "a", ",", "b", ")">>,
       <<"P", "(", "x", ")", ",", "E", "x", "~", "D", ":", "P", "(", "x", ")">>,
       <<"P", "(", "a", ",", "b", ")">> >>

EvalTrees == [i \in DOMAIN EvalTexts |-> parse(EvalTexts[i], 1, FALSE)]

Symbols == { <<"a">>, <<"x">>, <<"D">>, <<"y">> }

Substitutions ==
    { EmptyDict, (<<"x">> :> Tensor("sx")), (<<"y">> :> Tensor("sy")) }

InitEval ==
    /\ ParseIdle
    /\ KBIdle
    /\ \E m \in Structures, va \in VariableAssignments, da \in DomainAssignments :
           heap = <<m, va, DictOf(da)>>
    /\ interp = [structure |-> 1, variableAssignment |-> 2, domainAssignment |-> 3]
    /\ call = NoCall
    /\ outcome = NoOutcome
    /\ rerun = NoRerun

\* interpretation.interpret(symbol)
Interpret(symbol) ==
    /\ call.op \in {"none", "extend"}
    /\ call' = [NoCall EXCEPT !.op = "interpret", !.symbol = symbol]
    /\ LET r == interpret(interp, symbol, heap)
       IN outcome' = [NoOutcome EXCEPT !.val = r.val, !.err = r.err]
    /\ UNCHANGED <<heap, interp, rerun, parseVars, kbVars>>

\* interpretation = interpretation.extend(substitution)
Extend(substitution) ==
    /\ call.op = "none"
    /\ call' = [NoCall EXCEPT !.op = "extend", !.substitution = substitution]
    /\ LET r == extend(interp, substitution, heap)
       IN /\ outcome' = [NoOutcome EXCEPT !.self = r.self]
          /\ interp' = r.self
          /\ heap' = r.heap
    /\ UNCHANGED <<rerun, parseVars, kbVars>>

\* evaluate(pt, interpretation, operatorSet) for the outcome pt of parse: the call
\* is not made if parse raised
evaluateParsed(pt, interpretation, h) ==
    IF Raised(pt) THEN EvalRaised(h, <<>>)
    ELSE evaluate(pt, interpretation, OperatorSet, h, 0)

\* evaluate(parse(formula, signature), interpretation, operatorSet); the dicts the
\* call created are unreachable once it returns
Evaluate(formula) ==
    /\ call.op \in {"none", "extend"}
    /\ call' = [NoCall EXCEPT !.op = "evaluate", !.text = EvalTexts[formula],
                              !.tree = EvalTrees[formula]]
    /\ LET r == evaluateParsed(EvalTrees[formula], interp, heap)
       IN /\ outcome' = [NoOutcome EXCEPT !.val = r.val, !.err = r.err, !.log = r.log]
          /\ heap' = SubSeq(r.heap, 1, Len(heap))
    /\ UNCHANGED <<interp, rerun, parseVars, kbVars>>

\* the second run parsed pt and had the outcome r
Reruns(pt, r) ==
    /\ rerun' = [done |-> TRUE, tree |-> pt, val |-> r.val, err |-> r.err]
    /\ heap' = SubSeq(r.heap, 1, Len(heap))

\* the second run parsed pt and evaluates it
Reevaluates(pt) == Reruns(pt, evaluateParsed(pt, interp, heap))

\* the caller makes the last parse and evaluate call again, on the same text,
\* signature, interpretation and operator set
Repeat ==
    /\ call.op = "evaluate"
    /\ ~rerun.done
    /\ Reevaluates(parse(call.text, 1, FALSE))
    /\ UNCHANGED <<interp, call, outcome, parseVars, kbVars>>

NextEval ==
    \/ \E symbol \in Symbols : Interpret(symbol)
    \/ \E substitution \in Substitutions : Extend(substitution)
    \/ \E formula \in DOMAIN EvalTexts : Evaluate(formula)
    \/ Repeat

SpecEval == InitEval /\ [][NextEval]_vars

(***************************************************************************)
(* The caller of the knowledge base: it constructs a KnowledgeBase over a  *)
(* signature, with a list of formulas or without one, adds to it texts and *)
(* trees it has parsed against a signature of its choice, asks for its     *)
(* length, its elements and the membership of a formula, and evaluates it  *)
(* under an interpretation.                                                *)
(***************************************************************************)
MaxFormulas == 2

KBSigIds == {1, 2}

\* the texts the caller adds
KBTexts ==
    { <<"P", "(", "a", ")">>,
      <<"R", "(", "a", ",", "x", ")">>,
      <<"A", "x", "~", "D", ":", "P", "(", "x", ")">>,
      <<"a">>,
      <<"x">>,
      <<"f", "(", "a", ")">>,
      <<"P", "(">> }

\* the texts the caller parses itself before it adds the tree
TreeTexts ==
    { <<"R", "(", "a", ",", "b", ")">>,
      <<"a">> }

Str(formula) == [kind |-> "str", value |-> formula]

Tree(formula, sig) == [kind |-> "ParseTree", value |-> parse(formula, sig, FALSE)]

\* the formulas arguments of the constructor: omitted, or a list
InitialFormulas ==
    << [given |-> FALSE, list |-> <<>>],
      [given |-> TRUE, list |-> <<>>],
      [given |-> TRUE, list |-> << Str(<<"R", "(", "a", ",", "x", ")">>) >>],
      [given |-> TRUE, list |-> << Str(<<"R", "(", "a", ",", "x", ")">>),
                                  Tree(<<"R", "(", "a", ",", "b", ")">>, 1) >>],
      [given |-> TRUE, list |-> << Str(<<"a">>) >>] >>

\* the formulas the caller tests the membership of
MemberFormulas ==
    << Str(<<"R", "(", "a", ",", "x", ")">>), Str(<<"P", "(">>),
       Tree(<<"R", "(", "a", ",", "b", ")">>, 3) >>

\* the interpretation the caller evaluates the knowledge base under
KBHeap ==
    << StructureMappings, (<<"x">> :> Tensor("vx")), (<<"D">> :> Batch(2)) >>

\* the aggregator argument of evaluateKB
Aggregator == Tensor("aggregator")

\* the constructor was called with s and formulas and had the outcome r
Constructs(s, formulas, r) ==
    /\ kb = r.self
    /\ kbCall = [NoKBCall EXCEPT !.op = "init", !.formulas = formulas,
                                 !.raised = r.raised, !.returned = s]

\* kb = KnowledgeBase(Signatures[s], formulas), or KnowledgeBase(Signatures[s])
InitKB ==
    /\ ParseIdle
    /\ heap = KBHeap
    /\ interp = [structure |-> 1, variableAssignment |-> 2, domainAssignment |-> 3]
    /\ call = NoCall
    /\ outcome = NoOutcome
    /\ rerun = NoRerun
    /\ added = NotAdded
    /\ \E s \in KBSigIds, i \in DOMAIN InitialFormulas :
           Constructs(s, InitialFormulas[i], KnowledgeBase(s, InitialFormulas[i]))

\* a KnowledgeBase was constructed
Constructed == kb.signature # 0

\* add was called with formula and had the outcome r
Adds(formula, r) ==
    /\ kb' = r.self
    /\ added' = [formula |-> formula, raised |-> r.raised]
    /\ kbCall' = [NoKBCall EXCEPT !.op = "add", !.raised = r.raised]

\* the caller adds the tree it parsed, if the text parsed
AddsTree(formula) ==
    /\ IsTree(formula.value)
    /\ Adds(formula, add(kb, formula))

\* kb.add(text)
AddText(formula) ==
    /\ Constructed
    /\ len(kb) < MaxFormulas
    /\ Adds(Str(formula), add(kb, Str(formula)))
    /\ UNCHANGED <<parseVars, evalVars>>

\* kb.add(parse(formula, Signatures[sig]))
AddTree(formula, sig) ==
    /\ Constructed
    /\ len(kb) < MaxFormulas
    /\ AddsTree(Tree(formula, sig))
    /\ UNCHANGED <<parseVars, evalVars>>

\* formula in kb
Contains(formula) ==
    /\ Constructed
    /\ kbCall' = [NoKBCall EXCEPT !.op = "contains", !.formula = formula,
                                  !.returned = contains(kb, formula)]
    /\ UNCHANGED <<kb, added, parseVars, evalVars>>

\* len(kb)
Length ==
    /\ Constructed
    /\ kbCall' = [NoKBCall EXCEPT !.op = "len", !.returned = len(kb)]
    /\ UNCHANGED <<kb, added, parseVars, evalVars>>

\* list(kb)
Iterate ==
    /\ Constructed
    /\ kbCall' = [NoKBCall EXCEPT !.op = "iter", !.returned = iter(kb)]
    /\ UNCHANGED <<kb, added, parseVars, evalVars>>

\* evaluateKB was called with an argument of class kind and had the outcome r
EvaluatesKB(kind, r) ==
    /\ kbCall' = [NoKBCall EXCEPT !.op = "evaluateKB", !.kind = kind,
                                  !.raised = r.err, !.returned = r.val, !.log = r.log]
    /\ heap' = SubSeq(r.heap, 1, Len(heap))

\* evaluateKB(kb, interpretation, operatorSet, aggregator), or the same call with
\* the list of the trees in place of the KnowledgeBase; tf.concat of an empty list
\* of results is left out
EvaluateKB(kind) ==
    /\ Constructed
    /\ len(kb) >= 1
    /\ EvaluatesKB(kind, evaluateKB([kind |-> kind,
                                      value |-> IF kind = "KnowledgeBase" THEN kb
                                                ELSE kb.parseTrees],
                                     interp, OperatorSet, Aggregator, heap))
    /\ UNCHANGED <<kb, added, interp, call, outcome, rerun, parseVars>>

NextKB ==
    \/ \E formula \in KBTexts : AddText(formula)
    \/ \E formula \in TreeTexts, sig \in SigIds : AddTree(formula, sig)
    \/ \E i \in DOMAIN MemberFormulas : Contains(MemberFormulas[i])
    \/ Length
    \/ Iterate
    \/ \E kind \in {"KnowledgeBase", "list"} : EvaluateKB(kind)

SpecKB == InitKB /\ [][NextKB]_vars

(***************************************************************************)
(* Notions the properties are stated with.                                 *)
(***************************************************************************)
\* every node of a tree, root first
RECURSIVE NodeList(_), NodeListOfChildren(_, _)
NodeListOfChildren(children, i) ==
    IF i > Len(children) THEN <<>>
    ELSE NodeList(children[i]) \o NodeListOfChildren(children, i + 1)

NodeList(t) == <<t>> \o NodeListOfChildren(t.children, 1)

Nodes(t) == NodeList(t)

\* parse has been called on the text
Called == parsed.type # "none"

Elements(lst) == { lst[i] : i \in 1..Len(lst) }

Count(s, c, i) == Cardinality({ j \in 1..i : s[j] = c })

\* every ")" closes an earlier "(" and every "(" is closed
Balanced(s) ==
    /\ \A i \in 1..Len(s) : Count(s, ")", i) <= Count(s, "(", i)
    /\ Count(s, ")", Len(s)) = Count(s, "(", Len(s))

\* bracket depth after the first i characters: up on "(", down on ")", never negative
RECURSIVE BracketDepth(_, _)
BracketDepth(s, i) ==
    IF i = 0 THEN 0
    ELSE LET d == BracketDepth(s, i - 1)
         IN IF s[i] = "(" THEN d + 1 ELSE IF s[i] = ")" THEN Max(0, d - 1) ELSE d

OccursAtDepth0(s, key) ==
    \E p \in 1..Len(s) : StartsWithAt(s, p - 1, key) /\ BracketDepth(s, p - 1) = 0

IsSymbol(sig, name) ==
    \/ name \in DOMAIN Signatures[sig].predicates
    \/ name \in DOMAIN Signatures[sig].functors
    \/ name \in Elements(Signatures[sig].constants)

DeclaredArity(sig, type, name) ==
    IF type = "PREDICATE" THEN Signatures[sig].predicates[name]
    ELSE Signatures[sig].functors[name]

\* number of top-level comma-separated arguments of a balanced argument text
ArgumentCount(args) ==
    IF args = <<>> THEN 0
    ELSE 1 + Cardinality({ p \in 1..Len(args) :
                 args[p] = "," /\ Count(args, "(", p) = Count(args, ")", p) })

\* s is name(args) for a declared predicate or functor name, the last character
\* closing the argument list, with a number of arguments other than the arity
WrongArgumentCount(s, sig) ==
    \E k \in 1..Len(s) :
        /\ s[k] = "("
        /\ s[Len(s)] = ")"
        /\ k < Len(s)
        /\ Balanced(SubSeq(s, k + 1, Len(s) - 1))
        /\ LET name == SubSeq(s, 1, k - 1)
               args == SubSeq(s, k + 1, Len(s) - 1)
           IN \/ /\ name \in DOMAIN Signatures[sig].predicates
                 /\ ArgumentCount(args) # Signatures[sig].predicates[name]
              \/ /\ name \in DOMAIN Signatures[sig].functors
                 /\ name \notin DOMAIN Signatures[sig].predicates
                 /\ ArgumentCount(args) # Signatures[sig].functors[name]

(***************************************************************************)
(* C1. Arity enforcement: in a tree returned by parse every Predicate and  *)
(* every Functor node has exactly as many children as the arity declared   *)
(* for its symbol, and a text name(args) whose number of top-level         *)
(* arguments differs from the declared arity of name raises ParseError.    *)
(***************************************************************************)
ArityEnforcement ==
    /\ IsTree(parsed) =>
          \A i \in DOMAIN Nodes(parsed) : LET n == Nodes(parsed)[i] IN
              n.type \in {"PREDICATE", "FUNCTOR"} =>
                  Len(n.children) = DeclaredArity(signature, n.type, n.value)
    /\ (Called /\ WrongArgumentCount(text, signature)) => Raised(parsed)

\* "R(a,b)" parsed with R of arity 2: a Predicate node with two Constant children
ArityEnforcementWitness ==
    /\ text = <<"R", "(", "a", ",", "b", ")">>
    /\ parsed.type = "PREDICATE"
    /\ Len(parsed.children) = 2
    /\ \A i \in 1..2 : parsed.children[i].type = "CONSTANT"

(***************************************************************************)
(* C2. Operator precedence: when parse returns a tree, its root is an      *)
(* Implication if "-:" occurs at bracket depth 0 of the text, otherwise a  *)
(* Disjunction if ";" does, otherwise a Conjunction if "," does; this also *)
(* when the text starts with a negation or quantifier prefix.              *)
(***************************************************************************)
OperatorPrecedence ==
    IsTree(parsed) =>
        IF OccursAtDepth0(text, <<"-", ":">>) THEN parsed.type = "IMPLICATION"
        ELSE IF OccursAtDepth0(text, <<";">>) THEN parsed.type = "DISJUNCTION"
        ELSE IF OccursAtDepth0(text, <<",">>) THEN parsed.type = "CONJUNCTION"
        ELSE TRUE

\* "Ax~D:P(x),P(a)-:P(x)": the implication is the root, the conjunction its left
\* child, and the quantifier the left child of the conjunction
OperatorPrecedenceWitness ==
    /\ IsTree(parsed)
    /\ OccursAtDepth0(text, <<",">>)
    /\ parsed.type = "IMPLICATION"
    /\ parsed.children[1].type = "CONJUNCTION"
    /\ parsed.children[1].children[1].type = "UNIVERSAL"

(***************************************************************************)
(* C3. Unbalanced brackets are rejected: parse raises ParseError for every *)
(* text whose "(" and ")" are not balanced.                                *)
(***************************************************************************)
UnbalancedRejected ==
    (Called /\ ~Balanced(text)) => Raised(parsed)

(***************************************************************************)
(* C4. Variable/constant disjointness: in a tree returned by parse no      *)
(* Variable node's value and no quantifier's variable or domain token is a *)
(* symbol of the signature, and a bare declared constant parses to a       *)
(* Constant node.                                                          *)
(***************************************************************************)
VariableConstantDisjoint ==
    /\ IsTree(parsed) =>
          \A i \in DOMAIN Nodes(parsed) : LET n == Nodes(parsed)[i] IN
              /\ n.type = "VARIABLE" => ~IsSymbol(signature, n.value)
              /\ n.type \in Quantifiers =>
                    ~IsSymbol(signature, n.value[1]) /\ ~IsSymbol(signature, n.value[2])
    /\ (Called /\ text \in Elements(Signatures[signature].constants)) =>
          parsed.type = "CONSTANT"

\* "Ax~D:P(x),P(a)" parsed where a is a constant and x is no symbol: a quantifier
\* over x, a Variable node x and a Constant node a
VariableConstantDisjointWitness ==
    /\ IsTree(parsed)
    /\ \E i, j \in DOMAIN Nodes(parsed) :
           LET q == Nodes(parsed)[i]
               n == Nodes(parsed)[j]
           IN /\ q.type = "UNIVERSAL"
              /\ n.type = "VARIABLE"
              /\ n.value = q.value[1]
    /\ \E i \in DOMAIN Nodes(parsed) :
           LET n == Nodes(parsed)[i]
           IN n.type = "CONSTANT" /\ IsSymbol(signature, n.value)

(***************************************************************************)
(* C5. Free/bound partition: for every tree returned by parse the elements *)
(* of getVariables() are those of getFree() together with those of         *)
(* getBound().                                                             *)
(***************************************************************************)
FreeBoundPartition ==
    IsTree(parsed) =>
        Elements(getVariables(parsed)) =
            Elements(getFree(parsed)) \cup Elements(getBound(parsed))

(***************************************************************************)
(* Notions the properties of the evaluator are stated with.                *)
(***************************************************************************)
\* the positions lo..hi of the trace holding an event of this kind and depth, ascending
RECURSIVE Select(_, _, _, _, _)
Select(log, lo, hi, kind, depth) ==
    IF lo > hi THEN <<>>
    ELSE (IF log[lo].kind = kind /\ log[lo].depth = depth THEN <<lo>> ELSE <<>>)
         \o Select(log, lo + 1, hi, kind, depth)

\* the position of the "return" event of the call entered at position j
ReturnOf(log, j) ==
    CHOOSE k \in (j + 1)..Len(log) :
        /\ log[k].kind = "return" /\ log[k].depth = log[j].depth
        /\ \A m \in (j + 1)..(k - 1) :
               ~(log[m].kind = "return" /\ log[m].depth = log[j].depth)

\* the position of the "evaluate" event of the call that made the call entered at j
ParentOf(log, j) ==
    CHOOSE k \in 1..(j - 1) :
        /\ log[k].kind = "evaluate" /\ log[k].depth = log[j].depth - 1
        /\ \A m \in (k + 1)..(j - 1) :
               ~(log[m].kind = "evaluate" /\ log[m].depth = log[j].depth - 1)

\* what a symbol resolves to where these bindings are the variable assignment
Resolved(symbol, bindings) ==
    IF symbol \in DOMAIN heap[interp.structure] THEN heap[interp.structure][symbol]
    ELSE IF symbol \in DOMAIN bindings THEN bindings[symbol]
    ELSE heap[interp.domainAssignment][symbol]

RECURSIVE Flatten(_)
Flatten(batches) ==
    IF batches = <<>> THEN <<>> ELSE Head(batches) \o Flatten(Tail(batches))

\* the quantifier entered at position j of the trace is grounded over its domain
Grounded(log, j) ==
    LET e == log[j]
        end == ReturnOf(log, j)
        domain == Resolved(e.tree.value[2], e.bindings)
        N == Len(domain)
        entries == Select(log, j + 1, end - 1, "evaluate", e.depth + 1)
        returns == Select(log, j + 1, end - 1, "return", e.depth + 1)
        operators == Select(log, j + 1, end - 1, "operator", e.depth)
    IN /\ Len(entries) = N
       /\ Len(returns) = N
       /\ \A i \in 1..N :
              /\ e.tree.value[1] \in DOMAIN log[entries[i]].bindings
              /\ log[entries[i]].bindings[e.tree.value[1]] = <<domain[i]>>
              /\ entries[i] < returns[i]
              /\ i < N => returns[i] < entries[i + 1]
       /\ operators = <<end - 1>>
       /\ log[end - 1].op = (IF e.tree.type = "UNIVERSAL" THEN "universal" ELSE "existential")
       /\ log[end - 1].args =
              << Flatten([i \in 1..N |-> log[returns[i]].args[1]]) >>
       /\ log[end].args = << << [op |-> log[end - 1].op, args |-> log[end - 1].args] >> >>

(***************************************************************************)
(* C6. Quantifier grounding: an evaluation of a Universal or Existential   *)
(* node whose domain symbol resolves to a batch of N values evaluates the  *)
(* child exactly N times, the i-th time with the quantified variable bound *)
(* to the i-th element of the batch, and after all N of them applies the   *)
(* aggregator of the node exactly once, to the concatenation of the N      *)
(* results in that order.                                                  *)
(***************************************************************************)
QuantifierGrounding ==
    (call.op = "evaluate" /\ ~outcome.err) =>
        \A j \in DOMAIN outcome.log :
            (outcome.log[j].kind = "evaluate" /\ outcome.log[j].tree.type \in Quantifiers)
                => Grounded(outcome.log, j)

\* "Ax~D:Ey~D:R(x,y)" evaluated with D a batch of two or more values
QuantifierGroundingWitness ==
    /\ call.op = "evaluate"
    /\ ~outcome.err
    /\ call.tree.type = "UNIVERSAL"
    /\ call.tree.children[1].type = "EXISTENTIAL"
    /\ call.tree.value[1] # call.tree.children[1].value[1]
    /\ Len(Resolved(<<"D">>, heap[interp.variableAssignment])) >= 2
    /\ Len(Select(outcome.log, 1, Len(outcome.log), "operator", 1)) >= 2

\* extend leaves the three tables of its receiver as they were, evaluate the
\* variable assignment of the interpretation it is given
ReceiverKept ==
    /\ call'.op = "extend" =>
          /\ heap'[interp.structure] = heap[interp.structure]
          /\ heap'[interp.variableAssignment] = heap[interp.variableAssignment]
          /\ heap'[interp.domainAssignment] = heap[interp.domainAssignment]
    /\ call'.op = "evaluate" =>
          heap'[interp.variableAssignment] = heap[interp.variableAssignment]

\* two variable assignments bind the same values, the symbol var apart
SameApart(b1, b2, var) ==
    /\ (DOMAIN b1) \ {var} = (DOMAIN b2) \ {var}
    /\ \A k \in (DOMAIN b1) \ {var} : b1[k] = b2[k]

\* every call of the trace sees the bindings of the call that made it, and under a
\* quantifier also that of the quantified variable to one element of the domain
BindingsIsolated ==
    call.op = "evaluate" =>
        \A j \in DOMAIN outcome.log :
            LET e == outcome.log[j]
            IN e.kind = "evaluate" =>
                  IF e.depth = 0 THEN e.bindings = heap[interp.variableAssignment]
                  ELSE LET p == outcome.log[ParentOf(outcome.log, j)]
                       IN IF p.tree.type \in Quantifiers
                          THEN /\ SameApart(e.bindings, p.bindings, p.tree.value[1])
                               /\ p.tree.value[1] \in DOMAIN e.bindings
                               /\ \E i \in DOMAIN Resolved(p.tree.value[2], p.bindings) :
                                      e.bindings[p.tree.value[1]] =
                                          << Resolved(p.tree.value[2], p.bindings)[i] >>
                          ELSE e.bindings = p.bindings

(***************************************************************************)
(* C7. Copy-on-write bindings: extend leaves the variable assignment, the  *)
(* domain assignment and the structure of its receiver unchanged, and      *)
(* evaluate the variable assignment of the interpretation it is given; so  *)
(* the binding made for one element of a quantifier's domain is visible    *)
(* neither when the child is evaluated for another element nor when a      *)
(* sibling subformula outside the quantifier is evaluated.                 *)
(***************************************************************************)
CopyOnWrite == [][ReceiverKept]_vars /\ []BindingsIsolated

\* "(Ex~D:P(x)),P(x)" evaluated where x is bound by the caller and D has two values:
\* P(x) outside the quantifier is evaluated with the caller's binding of x
CopyOnWriteWitness ==
    /\ call.op = "evaluate"
    /\ ~outcome.err
    /\ call.tree.type = "CONJUNCTION"
    /\ <<"x">> \in DOMAIN heap[interp.variableAssignment]
    /\ \E i, j \in DOMAIN outcome.log :
           /\ i < j
           /\ outcome.log[i].kind = "evaluate"
           /\ outcome.log[i].depth = 3
           /\ outcome.log[i].bindings[<<"x">>] = SubSeq(Batch(2), 2, 2)
           /\ outcome.log[j].kind = "evaluate"
           /\ outcome.log[j].tree.type = "VARIABLE"
           /\ outcome.log[j].bindings = heap[interp.variableAssignment]

(***************************************************************************)
(* C8. Symbol resolution precedence: interpret(symbol) returns the mapping *)
(* of the Structure if the Structure maps the symbol, otherwise the value  *)
(* the variable assignment binds it to, otherwise the value the domain     *)
(* assignment binds it to, and raises an error, returning no value, if     *)
(* none of the three holds the symbol.                                     *)
(***************************************************************************)
SymbolResolution ==
    call.op = "interpret" =>
        LET symbol == call.symbol
            structure == heap[interp.structure]
            variableAssignment == heap[interp.variableAssignment]
            domainAssignment == heap[interp.domainAssignment]
        IN IF symbol \in DOMAIN structure
           THEN ~outcome.err /\ outcome.val = structure[symbol]
           ELSE IF symbol \in DOMAIN variableAssignment
           THEN ~outcome.err /\ outcome.val = variableAssignment[symbol]
           ELSE IF symbol \in DOMAIN domainAssignment
           THEN ~outcome.err /\ outcome.val = domainAssignment[symbol]
           ELSE outcome.err /\ outcome.val = <<>>

\* x looked up where the Structure, the variable assignment and the domain
\* assignment all hold it, with three different values
SymbolResolutionWitness ==
    /\ call.op = "interpret"
    /\ call.symbol = <<"x">>
    /\ <<"x">> \in DOMAIN heap[interp.structure]
    /\ <<"x">> \in DOMAIN heap[interp.variableAssignment]
    /\ <<"x">> \in DOMAIN heap[interp.domainAssignment]
    /\ heap[interp.structure][<<"x">>] # heap[interp.variableAssignment][<<"x">>]
    /\ heap[interp.variableAssignment][<<"x">>] # heap[interp.domainAssignment][<<"x">>]
    /\ outcome.val = heap[interp.structure][<<"x">>]

(***************************************************************************)
(* Notions the properties of the knowledge base are stated with.           *)
(***************************************************************************)
\* every stored tree was parsed against a signature equal to the knowledge base's
SameSignature ==
    \A i \in DOMAIN kb.parseTrees :
        SignatureEq(kb.parseTrees[i].signature, kb.signature)

\* a step that adds a tree of another signature raises and stores nothing
ForeignTreeRefused ==
    (/\ kbCall'.op = "add"
     /\ added'.formula.kind = "ParseTree"
     /\ ~SignatureEq(added'.formula.value.signature, kb.signature))
        => /\ added'.raised
           /\ kb'.parseTrees = kb.parseTrees
           /\ kb'.signature = kb.signature

\* the stored sequence after the step is the one before it with tree appended
Appended(tree) ==
    /\ Len(kb'.parseTrees) = Len(kb.parseTrees) + 1
    /\ SubSeq(kb'.parseTrees, 1, Len(kb.parseTrees)) = kb.parseTrees
    /\ LET last == kb'.parseTrees[Len(kb'.parseTrees)]
       IN /\ last.type = tree.type
          /\ last = tree

\* a step that adds a text stores its tree if it parses to a formula, and
\* otherwise raises and stores nothing
TextAdded ==
    (kbCall'.op = "add" /\ added'.formula.kind = "str") =>
        LET tree == parse(added'.formula.value, kb.signature, FALSE)
        IN IF Raised(tree) \/ tree.type \in {"CONSTANT", "VARIABLE", "FUNCTOR"}
           THEN added'.raised /\ kb'.parseTrees = kb.parseTrees
           ELSE ~added'.raised /\ Appended(tree)

(***************************************************************************)
(* C9. Knowledge-base signature guard: after any sequence of add calls     *)
(* every ParseTree stored in a KnowledgeBase has a signature equal to the  *)
(* knowledge base's, and add of a tree whose signature is not equal to it  *)
(* raises an error and leaves the stored sequence unchanged.               *)
(***************************************************************************)
SignatureGuard == []SameSignature /\ [][ForeignTreeRefused]_vars

\* a tree parsed against another Signature object with the same symbols is stored
\* after a tree of a different signature was refused
SignatureGuardWitness ==
    /\ Len(kb.parseTrees) = 1
    /\ kb.parseTrees[1].signature # kb.signature
    /\ SignatureEq(kb.parseTrees[1].signature, kb.signature)
    /\ added.formula.kind = "ParseTree"
    /\ added.raised
    /\ ~SignatureEq(added.formula.value.signature, kb.signature)

(***************************************************************************)
(* C10. Adding text: add(text) parses the text against the knowledge       *)
(* base's signature; if the text does not parse, or parses to a term       *)
(* (Constant, Variable or Functor), add raises an error and the stored     *)
(* sequence is unchanged; if it parses to a formula, exactly that tree is  *)
(* appended as the last element.                                           *)
(***************************************************************************)
TextAddition == [][TextAdded]_vars

\* a formula text was added and stored, then a term text was refused
TextAdditionWitness ==
    /\ Len(kb.parseTrees) = 1
    /\ isFormula(kb.parseTrees[1])
    /\ added.formula.kind = "str"
    /\ added.raised
    /\ parse(added.formula.value, kb.signature, FALSE).type = "FUNCTOR"

(***************************************************************************)
(* Notions of the claims about the operations on a knowledge base.         *)
(***************************************************************************)
\* the tree an argument of add stands for in a knowledge base over sig
Denoted(formula, sig) ==
    IF formula.kind = "ParseTree" THEN formula.value
    ELSE parse(formula.value, sig, FALSE)

\* the stored trees from position i on are the trees of the list from i on
RECURSIVE StoredFrom(_, _, _, _)
StoredFrom(parseTrees, list, sig, i) ==
    IF i > Len(list) THEN TRUE
    ELSE /\ TreeEq(parseTrees[i], Denoted(list[i], sig))
         /\ parseTrees[i].signature = Denoted(list[i], sig).signature
         /\ StoredFrom(parseTrees, list, sig, i + 1)

\* a constructed knowledge base stores the trees of its initial list in list order
InitialOrder ==
    (kbCall.op = "init" /\ ~kbCall.raised) =>
        /\ Len(kb.parseTrees) = Len(kbCall.formulas.list)
        /\ StoredFrom(kb.parseTrees, kbCall.formulas.list, kb.signature, 1)

\* a step changes the stored sequence only by a successful add, which appends the
\* tree it was given at the end; the signature of the knowledge base stays
Grows ==
    /\ kb'.signature = kb.signature
    /\ IF kbCall'.op = "add" /\ ~added'.raised
       THEN Appended(Denoted(added'.formula, kb.signature))
       ELSE kb'.parseTrees = kb.parseTrees

(***************************************************************************)
(* C11. Knowledge-base growth: over any sequence of operations on a        *)
(* KnowledgeBase (construction, add, membership test, len, iteration,      *)
(* evaluateKB) the stored sequence changes only by a successful add, which *)
(* appends one element at the end: its length never decreases, the         *)
(* elements it has keep their positions, and its order is the order of the *)
(* successful adds, construction adding the initial list in list order.    *)
(***************************************************************************)
KnowledgeBaseGrowth == []InitialOrder /\ [][Grows]_vars

\* a knowledge base constructed with one formula has had a second one appended
KnowledgeBaseGrowthWitness ==
    /\ Len(kb.parseTrees) = 2
    /\ kb.parseTrees[1].type = "PREDICATE"
    /\ kb.parseTrees[2].type = "UNIVERSAL"
    /\ kbCall.op = "add"
    /\ ~added.raised

\* the values the calls of evaluate at these positions of the trace returned
ReturnValues(log, returns) == [i \in DOMAIN returns |-> log[returns[i]].args[1]]

\* the trace of a call of evaluateKB on a KnowledgeBase that returned: one call of
\* evaluate for each stored tree, in stored order, each returned before the next is
\* made, all under the variable assignment of the interpretation; then one call
\* of the aggregator, on the returned values concatenated in that order
InStoredOrder(log, parseTrees, returned) ==
    LET entries == Select(log, 1, Len(log), "evaluate", 0)
        returns == Select(log, 1, Len(log), "return", 0)
        calls == Select(log, 1, Len(log), "aggregator", 0)
        batch == Flatten(ReturnValues(log, returns))
    IN /\ Len(entries) = Len(parseTrees)
       /\ Len(returns) = Len(parseTrees)
       /\ \A i \in DOMAIN parseTrees :
              /\ TreeEq(log[entries[i]].tree, parseTrees[i])
              /\ log[entries[i]].tree.signature = parseTrees[i].signature
              /\ log[entries[i]].bindings = heap[interp.variableAssignment]
              /\ entries[i] < returns[i]
              /\ i < Len(parseTrees) => returns[i] < entries[i + 1]
       /\ calls = << Len(log) >>
       /\ log[Len(log)].op = Aggregator[1].op
       /\ log[Len(log)].args = << batch >>
       /\ returned = << [op |-> Aggregator[1].op, args |-> << batch >>] >>

(***************************************************************************)
(* C12. evaluateKB ordering: evaluateKB evaluates each stored formula      *)
(* exactly once, in stored order, all against the same interpretation and  *)
(* operator set, and then applies the aggregator exactly once, to the      *)
(* per-formula values concatenated in stored order; if its first argument  *)
(* is not a KnowledgeBase it raises before it evaluates any formula or     *)
(* calls the aggregator.                                                   *)
(***************************************************************************)
EvaluateKBOrdering ==
    kbCall.op = "evaluateKB" =>
        IF kbCall.kind # "KnowledgeBase"
        THEN kbCall.raised /\ kbCall.log = <<>>
        ELSE ~kbCall.raised => InStoredOrder(kbCall.log, kb.parseTrees, kbCall.returned)

\* a knowledge base of a predicate and a quantified formula was evaluated
EvaluateKBOrderingWitness ==
    /\ kbCall.op = "evaluateKB"
    /\ kbCall.kind = "KnowledgeBase"
    /\ ~kbCall.raised
    /\ Len(kb.parseTrees) = 2
    /\ kb.parseTrees[1].type = "PREDICATE"
    /\ kb.parseTrees[2].type = "UNIVERSAL"
    /\ Len(kbCall.returned[1].args[1]) = 2

(***************************************************************************)
(* C15. A knowledge base stores only formulas: after any sequence of add   *)
(* calls with text or pre-parsed trees, trees of terms of the same         *)
(* signature included, every stored tree satisfies isFormula().            *)
(***************************************************************************)
OnlyFormulasStored ==
    \A i \in DOMAIN kb.parseTrees : isFormula(kb.parseTrees[i])

(***************************************************************************)
(* C16. The initial list is optional: KnowledgeBase(signature) with the    *)
(* formulas argument omitted succeeds and yields a knowledge base with     *)
(* that signature and an empty stored sequence.                            *)
(***************************************************************************)
FormulasOptional ==
    (kbCall.op = "init" /\ ~kbCall.formulas.given) =>
        /\ ~kbCall.raised
        /\ kb.signature = kbCall.returned
        /\ len(kb) = 0

(***************************************************************************)
(* Notions of the claim about the semantics of evaluate.                   *)
(***************************************************************************)
\* the calls of evaluate made by the call entered at position j of the trace are
\* one for each child of its node, in child order, each returned before the next
ChildrenInOrder(log, j) ==
    LET e == log[j]
        end == ReturnOf(log, j)
        entries == Select(log, j + 1, end - 1, "evaluate", e.depth + 1)
        returns == Select(log, j + 1, end - 1, "return", e.depth + 1)
        n == Len(e.tree.children)
    IN /\ Len(entries) = n
       /\ Len(returns) = n
       /\ \A i \in 1..n :
              /\ TreeEq(log[entries[i]].tree, e.tree.children[i])
              /\ entries[i] < returns[i]
              /\ i < n => returns[i] < entries[i + 1]

\* the values the children of the call entered at position j returned, in order
ChildValues(log, j) ==
    LET e == log[j]
        end == ReturnOf(log, j)
    IN ReturnValues(log, Select(log, j + 1, end - 1, "return", e.depth + 1))

\* the value of the callable named by the tensor f on the arguments args
ValueOf(f, args) == << [op |-> f[1].op, args |-> args] >>

\* the call entered at position j returned the value its node denotes
Denotes(log, j) ==
    LET e == log[j]
        type == e.tree.type
        value == log[ReturnOf(log, j)].args[1]
    IN IF type \in {"CONSTANT", "VARIABLE"}
       THEN /\ ChildrenInOrder(log, j)
            /\ value = Resolved(e.tree.value, e.bindings)
       ELSE IF type \in {"PREDICATE", "FUNCTOR"}
       THEN /\ ChildrenInOrder(log, j)
            /\ value = ValueOf(Resolved(e.tree.value, e.bindings), ChildValues(log, j))
       ELSE IF type = "BRACKET"
       THEN /\ ChildrenInOrder(log, j)
            /\ value = ChildValues(log, j)[1]
       ELSE IF type = "NEGATION"
       THEN /\ ChildrenInOrder(log, j)
            /\ Len(ChildValues(log, j)) = 1
            /\ value = ValueOf(OperatorSet.negation, ChildValues(log, j))
       ELSE IF type \in {"CONJUNCTION", "DISJUNCTION", "IMPLICATION"}
       THEN /\ ChildrenInOrder(log, j)
            /\ Len(ChildValues(log, j)) = 2
            /\ value = ValueOf(IF type = "CONJUNCTION" THEN OperatorSet.tnorm
                               ELSE IF type = "DISJUNCTION" THEN OperatorSet.tconorm
                               ELSE OperatorSet.implication,
                               ChildValues(log, j))
       ELSE TRUE

Abs(n) == IF n < 0 THEN 0 - n ELSE n

\* the number a value is in the structure that maps a to 0, b to 1 and R to
\* 1 - |x - y|, under the negation 1 - x
RECURSIVE Number(_)
Number(term) ==
    IF term.op = "a0" THEN 0
    ELSE IF term.op = "b0" THEN 1
    ELSE IF term.op = "R"
    THEN 1 - Abs(Number(term.args[1][1]) - Number(term.args[2][1]))
    ELSE 1 - Number(term.args[1][1])

FriendAB == parse(<<"R", "(", "a", ",", "b", ")">>, 1, FALSE)

NotFriendAB == parse(<<"!", "R", "(", "a", ",", "b", ")">>, 1, FALSE)

(***************************************************************************)
(* C13. Evaluator semantics: evaluate is a structural recursion.  A        *)
(* Constant or Variable is interpretation(value); a Predicate or Functor   *)
(* is interpretation(value) applied to the values of the children in child *)
(* order; a Bracket is the value of its child; a Negation is negation of   *)
(* the value of its child; a Conjunction, Disjunction or Implication is    *)
(* tnorm, tconorm or implication of the values of the left and the right   *)
(* child, the left evaluated before the right.  With a mapped to 0, b to   *)
(* 1, the relation to 1 - |x - y| and negation 1 - x, the atom on a and b  *)
(* is 0 and its negation is 1.                                             *)
(***************************************************************************)
EvaluatorSemantics ==
    (call.op = "evaluate" /\ ~outcome.err) =>
        /\ \A j \in DOMAIN outcome.log :
               outcome.log[j].kind = "evaluate" => Denotes(outcome.log, j)
        /\ TreeEq(call.tree, FriendAB) => Number(outcome.val[1]) = 0
        /\ TreeEq(call.tree, NotFriendAB) => Number(outcome.val[1]) = 1

\* "(P(f(a));P(x))-:P(a)" was evaluated
EvaluatorSemanticsWitness ==
    /\ call.op = "evaluate"
    /\ ~outcome.err
    /\ call.tree.type = "IMPLICATION"
    /\ call.tree.children[1].type = "BRACKET"
    /\ call.tree.children[1].children[1].type = "DISJUNCTION"
    /\ call.tree.children[1].children[1].children[1].children[1].type = "FUNCTOR"
    /\ outcome.val[1].op = "implication"
    /\ Len(outcome.val[1].args) = 2

Occurrences(lst, token) ==
    { i \in 1..(Len(lst) - Len(token) + 1) :
          SubSeq(lst, i, i + Len(token) - 1) = Chars(token) }

\* the pairs <<outer, inner>> of the variables of a quantifier node of the tree and
\* of a quantifier node within its body that introduces another variable
NestedVariables(t) ==
    LET nodes == NodeList(t)
    IN UNION { LET inner == NodeList(nodes[i].children[1])
               IN { <<nodes[i].value[1], inner[k].value[1]>> :
                        k \in { m \in DOMAIN inner :
                                    /\ inner[m].type \in Quantifiers
                                    /\ inner[m].value[1] # nodes[i].value[1] } } :
               i \in { j \in DOMAIN nodes : nodes[j].type \in Quantifiers } }

\* the domain tokens of the quantifier nodes of a tree
DomainTokens(t) ==
    LET nodes == NodeList(t)
    IN { nodes[i].value[2] : i \in { j \in DOMAIN nodes : nodes[j].type \in Quantifiers } }

DomainsExact ==
    IsTree(parsed) => Elements(getDomains(parsed)) = DomainTokens(parsed)

(***************************************************************************)
(* Notions of the claim about the types of the nodes of a tree.            *)
(***************************************************************************)
\* the node types of formulas and of terms
FormulaTypes ==
    {"IMPLICATION", "DISJUNCTION", "CONJUNCTION", "NEGATION", "BRACKET", "UNIVERSAL",
     "EXISTENTIAL", "PREDICATE"}

TermTypes == {"CONSTANT", "VARIABLE", "FUNCTOR"}

\* the children of a node are of these types
ChildrenOf(node, types) == \A i \in DOMAIN node.children : node.children[i].type \in types

\* a node has the children its type asks for
WellTypedNode(node) ==
    /\ isFormula(node) <=> node.type \in FormulaTypes
    /\ isTerm(node) <=> node.type \in TermTypes
    /\ node.type \in {"IMPLICATION", "DISJUNCTION", "CONJUNCTION"} =>
           Len(node.children) = 2 /\ ChildrenOf(node, FormulaTypes)
    /\ node.type \in {"NEGATION", "BRACKET", "UNIVERSAL", "EXISTENTIAL"} =>
           Len(node.children) = 1 /\ ChildrenOf(node, FormulaTypes)
    /\ node.type \in {"PREDICATE", "FUNCTOR"} => ChildrenOf(node, TermTypes)
    /\ node.type \in {"CONSTANT", "VARIABLE"} => Len(node.children) = 0

\* the text is a term, a formula, of the signature
TermText(s, sig) == parse(s, sig, FALSE).type \in TermTypes

FormulaText(s, sig) == parse(s, sig, FALSE).type \in FormulaTypes

\* the text is a negation symbol before a term
NegatedTerm(s, sig) ==
    /\ Len(s) >= 2
    /\ s[1] = "!"
    /\ TermText(Slice(s, 1, Len(s)), sig)

\* the text is a pair of brackets around a term
BracketedTerm(s, sig) ==
    /\ Len(s) >= 3
    /\ s[1] = "("
    /\ s[Len(s)] = ")"
    /\ TermText(Slice(s, 1, Len(s) - 1), sig)

\* the 0-based positions of s at which key occurs at bracket depth 0
Depth0Occurrences(s, key) ==
    { p \in { q \in 0..(Len(s) - 1) : StartsWithAt(s, q, key) } : BracketDepth(s, p) = 0 }

\* the least element of a nonempty set of numbers
Least(S) == CHOOSE p \in S : \A q \in S : p <= q

\* where the binary junctors outside brackets start, and where they end
JunctorStarts(s) == UNION { Depth0Occurrences(s, key) : key \in BinaryJunctors }

JunctorEnds(s) ==
    UNION { { p + Len(key) : p \in Depth0Occurrences(s, key) } : key \in BinaryJunctors }

\* the text has binary junctors outside brackets, and one of the pieces they cut it
\* into is a term
JunctorOnTerm(s, sig) ==
    LET starts == JunctorStarts(s)
        ends == JunctorEnds(s)
    IN /\ starts # {}
       /\ \E b \in {0} \cup ends :
              TermText(Slice(s, b, Least({ e \in starts \cup {Len(s)} : e >= b })), sig)

\* the text is a predicate or functor symbol of the signature applied to a formula
FormulaArgument(s, sig) ==
    \E name \in (DOMAIN Signatures[sig].predicates) \cup (DOMAIN Signatures[sig].functors) :
        /\ Len(s) >= Len(name) + 3
        /\ StartsWithAt(s, 0, name)
        /\ s[Len(name) + 1] = "("
        /\ s[Len(s)] = ")"
        /\ FormulaText(Slice(s, Len(name) + 1, Len(s) - 1), sig)

(***************************************************************************)
(* C19. Well-typed trees: in every tree parse returns, an Implication,     *)
(* Disjunction or Conjunction node has exactly two children, both          *)
(* formulas; a Negation, Bracket, Universal or Existential node has        *)
(* exactly one child, a formula; every child of a Predicate or Functor     *)
(* node is a term; a Constant or Variable node has no children.  A text    *)
(* that puts a junctor or a negation on a term, brackets around a term or  *)
(* a formula in the argument list of a predicate raises ParseError: parse  *)
(* returns no tree for it.                                                 *)
(***************************************************************************)
WellTyped ==
    /\ IsTree(parsed) =>
           LET nodes == NodeList(parsed)
           IN \A i \in DOMAIN nodes : WellTypedNode(nodes[i])
    /\ (Called /\ ~Raised(parsed)) =>
           ~ \/ NegatedTerm(text, signature)
             \/ BracketedTerm(text, signature)
             \/ JunctorOnTerm(text, signature)
             \/ FormulaArgument(text, signature)

\* "!P(f(a)),Ax~D:P(x)" was parsed
WellTypedWitness ==
    /\ IsTree(parsed)
    /\ parsed.type = "CONJUNCTION"
    /\ parsed.children[1].type = "NEGATION"
    /\ parsed.children[1].children[1].type = "PREDICATE"
    /\ parsed.children[1].children[1].children[1].type = "FUNCTOR"
    /\ parsed.children[1].children[1].children[1].children[1].type = "CONSTANT"
    /\ parsed.children[2].type = "UNIVERSAL"
    /\ parsed.children[2].children[1].children[1].type = "VARIABLE"

(***************************************************************************)
(* Notions of the claim about the place a text is split at.                *)
(***************************************************************************)
\* the children of a junctor node are the parses of the text before, and after, the
\* first depth-0 occurrence of its symbol in the text s
SplitAtFirst(node, s, sig) ==
    LET key == _STANDARD_JUNCTOR_SYMBOLS[node.type]
        occurrences == Depth0Occurrences(s, key)
    IN /\ occurrences # {}
       /\ TreeEq(node.children[1], parse(Slice(s, 0, Least(occurrences)), sig, FALSE))
       /\ TreeEq(node.children[2],
                 parse(Slice(s, Least(occurrences) + Len(key), Len(s)), sig, FALSE))

(***************************************************************************)
(* C20. First-occurrence split: when the symbol of a binary junctor occurs *)
(* at bracket depth 0, the left child of its node is the parse of the text *)
(* before the first depth-0 occurrence and the right child the parse of    *)
(* everything after it, depth rising on "(" and falling on ")" but never   *)
(* below 0; so a chain of one junctor nests to the right, and a junctor    *)
(* symbol inside brackets or inside an argument list is never a split      *)
(* point.                                                                  *)
(***************************************************************************)
FirstOccurrenceSplit ==
    IsTree(parsed) =>
        IF parsed.type \in {"IMPLICATION", "DISJUNCTION", "CONJUNCTION"}
        THEN SplitAtFirst(parsed, Strip(text), signature)
        ELSE \A key \in BinaryJunctors : Depth0Occurrences(Strip(text), key) = {}

\* "P(a)-:P(x)-:P(a)" was parsed: an implication whose right child is an implication
FirstOccurrenceSplitWitness ==
    /\ IsTree(parsed)
    /\ parsed.type = "IMPLICATION"
    /\ Cardinality(Depth0Occurrences(text, <<"-", ":">>)) = 2
    /\ parsed.children[1].type = "PREDICATE"
    /\ parsed.children[2].type = "IMPLICATION"

(***************************************************************************)
(* Notions the scoping of quantified variables is stated with.             *)
(***************************************************************************)
\* the event at position k of the trace belongs to the call entered at position m
Inside(log, m, k) ==
    /\ m < k
    /\ \A n \in (m + 1)..k : log[n].depth > log[m].depth

\* the evaluations of quantifiers over var that the call entered at k is made within
Binders(log, k, var) ==
    { m \in 1..(k - 1) :
          /\ log[m].kind = "evaluate"
          /\ log[m].tree.type \in Quantifiers
          /\ log[m].tree.value[1] = var
          /\ Inside(log, m, k) }

\* the innermost of them, 0 if there is none
Binder(log, k, var) ==
    IF Binders(log, k, var) = {} THEN 0
    ELSE CHOOSE m \in Binders(log, k, var) : \A n \in Binders(log, k, var) : n <= m

\* the element of its domain the quantifier entered at m is at when the call at k is made
CurrentElement(log, m, k) ==
    LET domain == Resolved(log[m].tree.value[2], log[m].bindings)
        i == Len(Select(log, m + 1, k, "evaluate", log[m].depth + 1))
    IN << domain[i] >>

\* var has a binding in the scope of the call entered at k
InScope(log, k, var) ==
    \/ Binder(log, k, var) # 0
    \/ var \in DOMAIN heap[interp.variableAssignment]

\* the binding: that of the innermost enclosing quantifier over var, else the caller's
ScopedValue(log, k, var) ==
    IF Binder(log, k, var) # 0 THEN CurrentElement(log, Binder(log, k, var), k)
    ELSE heap[interp.variableAssignment][var]

\* the call entered at k sees, for every variable, the binding of its scope, and an
\* occurrence of a variable that the Structure does not map evaluates to it
Scoped(log, k) ==
    /\ \A var \in Symbols \cup DOMAIN log[k].bindings :
           /\ var \in DOMAIN log[k].bindings <=> InScope(log, k, var)
           /\ InScope(log, k, var) => log[k].bindings[var] = ScopedValue(log, k, var)
    /\ ( /\ log[k].tree.type = "VARIABLE"
         /\ log[k].tree.value \notin DOMAIN heap[interp.structure]
         /\ InScope(log, k, log[k].tree.value) )
       => /\ k < Len(log)
          /\ log[k + 1].kind = "return"
          /\ log[k + 1].depth = log[k].depth
          /\ log[k + 1].args = << ScopedValue(log, k, log[k].tree.value) >>

(***************************************************************************)
(* C21. Shadowing in nested quantifiers: a quantifier over x evaluated     *)
(* where x is already bound, by an outer quantifier or by the caller's     *)
(* variable assignment, has its child see the quantifier's current element *)
(* for x; once it has returned, the subformulas of the outer scope see the *)
(* outer binding of x again; the bindings of every other variable are      *)
(* those of the scope throughout.  The Structure maps symbols of the       *)
(* signature, and a lookup consults it before the variable assignment.     *)
(***************************************************************************)
Shadowing ==
    call.op = "evaluate" =>
        \A k \in DOMAIN outcome.log :
            outcome.log[k].kind = "evaluate" => Scoped(outcome.log, k)

\* "Ax~D:((Ex~D:P(x)),P(x))" evaluated where the caller binds x and D has two or more
\* values: the P(x) after the inner quantifier, which ended on another element,
\* evaluates x to the element of the outer one
ShadowingWitness ==
    /\ call.op = "evaluate"
    /\ ~outcome.err
    /\ <<"x">> \in DOMAIN heap[interp.variableAssignment]
    /\ <<"x">> \notin DOMAIN heap[interp.structure]
    /\ \E m, j, k \in DOMAIN outcome.log :
           /\ k < Len(outcome.log)
           /\ m = Binder(outcome.log, j, <<"x">>)
           /\ m = Binder(outcome.log, k, <<"x">>)
           /\ j < k
           /\ outcome.log[j].kind = "evaluate"
           /\ outcome.log[j].tree.type \in Quantifiers
           /\ outcome.log[j].tree.value[1] = <<"x">>
           /\ outcome.log[k].kind = "evaluate"
           /\ outcome.log[k].tree.type = "VARIABLE"
           /\ outcome.log[k].tree.value = <<"x">>
           /\ outcome.log[k + 1].args = << CurrentElement(outcome.log, m, k) >>
           /\ \E i \in (j + 1)..(k - 1) :
                  /\ outcome.log[i].kind = "evaluate"
                  /\ outcome.log[i].tree = outcome.log[k].tree
                  /\ Binder(outcome.log, i, <<"x">>) = j
                  /\ outcome.log[i + 1].args # outcome.log[k + 1].args

(***************************************************************************)
(* Notions the termination of the parser is stated with.                   *)
(***************************************************************************)
\* a step that makes a call of _parse from a call of _parse passes it a string
\* strictly shorter than the formula the calling one is parsing
ShorterCall ==
    (frames # <<>> /\ Len(frames') = Len(frames) + 1) =>
        Len(frames'[Len(frames')].passed) < Len(frames[Len(frames)].formula)

\* parse was called and has neither returned nor raised
InProgress == frames # <<>>

\* parse has returned a tree or raised ParseError
Finished == frames = <<>> /\ (IsTree(parsed) \/ Raised(parsed))

\* what the calls made one at a time return or raise is what parse computes
StepwiseAgrees ==
    Finished =>
        IF Raised(parsed) THEN Raised(parse(text, signature, FALSE))
        ELSE /\ IsTree(parse(text, signature, FALSE))
             /\ TreeEq(parsed, parse(text, signature, FALSE))

ArityOf(sig, name) ==
    IF name \in DOMAIN Signatures[sig].predicates THEN Signatures[sig].predicates[name]
    ELSE Signatures[sig].functors[name]

\* the node type of an application of the symbol
ApplicationType(sig, name) ==
    IF name \in DOMAIN Signatures[sig].predicates THEN "PREDICATE" ELSE "FUNCTOR"

\* args is n terms separated by commas outside brackets; no text at all for n = 0
TermArguments(args, n, sig) ==
    IF n = 0 THEN args = <<>>
    ELSE LET commas == Depth0Occurrences(args, <<",">>)
         IN /\ Balanced(args)
            /\ Cardinality(commas) = n - 1
            /\ \A b \in {0} \cup { p + 1 : p \in commas } :
                   TermText(Slice(args, b, Least({ e \in commas \cup {Len(args)} : e >= b })),
                            sig)

\* s is name(t1,...,tn) with n the arity declared for name and t1..tn terms
ExactApplication(s, sig, name) ==
    /\ Len(s) >= Len(name) + 2
    /\ StartsWithAt(s, 0, name)
    /\ s[Len(name) + 1] = "("
    /\ s[Len(s)] = ")"
    /\ TermArguments(Slice(s, Len(name) + 1, Len(s) - 1), ArityOf(sig, name), sig)

\* parse returned a node of the symbol with as many children as its arity
AppliedNode(sig, name) ==
    /\ IsTree(parsed)
    /\ parsed.type = ApplicationType(sig, name)
    /\ parsed.value = name
    /\ Len(parsed.children) = ArityOf(sig, name)

\* the symbols of the signature with an arity, those of arity n or more
Applicable(sig, n) ==
    { name \in (DOMAIN Signatures[sig].predicates) \cup (DOMAIN Signatures[sig].functors) :
          ArityOf(sig, name) >= n }

\* the applications of the symbols of arity 1 or more, with exactly as many term
\* arguments, parse to a node of the symbol with that many children
PositiveArityAccepted ==
    Called =>
        \A name \in Applicable(signature, 1) :
            ExactApplication(text, signature, name) => AppliedNode(signature, name)

\* "R(a,b)" was parsed against a signature with R of arity 2
PositiveArityAcceptedWitness ==
    /\ Called
    /\ ExactApplication(text, signature, <<"R">>)
    /\ AppliedNode(signature, <<"R">>)

(***************************************************************************)
(* C23. Exact arity match for every non-negative arity: for a predicate or *)
(* functor declared with arity n >= 0, the text name(t1,...,tn) with       *)
(* exactly n term arguments parses to a node of that symbol with n         *)
(* children; for n = 0 the text name() parses to a node with no children.  *)
(***************************************************************************)
ExactArityAccepted ==
    Called =>
        \A name \in Applicable(signature, 0) :
            ExactApplication(text, signature, name) => AppliedNode(signature, name)

====
